---- MODULE Spec2Model ----
(***************************************************************************)
(* Model of fastapi_keycloak.api.FastAPIKeycloak: the admin-token cache,   *)
(* the local token verifier, and the login policy engine (user_login),     *)
(* together with the part of the remote identity provider ("gateway")      *)
(* that these operations read and change.                                  *)
(*                                                                         *)
(* A Python exception is modelled as an outcome record                     *)
(* [kind, status, detail]; a handler that raises ends with that outcome.   *)
(* user_login is cut at its remote calls: one action per remote round trip *)
(* together with the statements that follow it up to the next remote call; *)
(* the expiration check, which is local, is an action of its own.          *)
(* The admin_token getter is modelled twice: run to its end in one step    *)
(* (SpecAdmin, and inside user_login), and statement by statement for one  *)
(* caller (SpecAdminRead) or several (SpecAdminRace).  SpecVerifier starts *)
(* before the public key is cached; SpecGuard starts from a constructed    *)
(* instance and presents bearer tokens to current_user.                    *)
(*                                                                         *)
(* The administrative operations leave their last call in `adm`: the       *)
(* requests sent in order, the status of each answer and whether the call  *)
(* carried a timeout.  SpecQuery calls get_user with a query; SpecPolicy   *)
(* makes one realm policy update or logout_user, then reads the cap back   *)
(* and logs a user in; SpecUnlock runs clear_login_error_events request by *)
(* request, or set_account_expiration, against a gateway that may record   *)
(* lockout events at any moment; SpecLoginRace lets two callers log the    *)
(* same user in while the gateway changes the user's requiredActions.      *)
(***************************************************************************)
EXTENDS Integers, Sequences, FiniteSets, TLC

\* ------------------------------------------------------------------ bounds
MaxTime     == 2    \* instants are 0..MaxTime
MaxSessions == 2    \* active sessions a user holds before a login starts
MaxCap      == 2    \* largest numeric max-sessions realm attribute
MaxDepth    == 2    \* frames of the admin_token getter before Python gives up
MaxFetches  == 2    \* requests for the public key the realm endpoint is sent
MaxQueryLen == 4    \* characters of a user query
MaxEvents   == 2    \* LOGIN_ERROR events the gateway keeps for the user

Times == 0..MaxTime

\* ------------------------------------------------------------ outcomes
Out(kind, status, detail) == [kind |-> kind, status |-> status, detail |-> detail]
NoOutcome == Out("none", 0, "")

Lockout            == Out("HTTPException", 403, "Lockout")
Expired            == Out("HTTPException", 403, "Expired")
BadExpiration      == Out("HTTPException", 400, "InvalidExpirationFormat")
ConcurrencyLimit   == Out("HTTPException", 403, "ConcurrencyLimit")
InvalidCredentials == Out("HTTPException", 401, "InvalidCredentials")
UserNotFound       == Out("UserNotFound", 404, "")
Returned           == Out("return", 0, "")

\* ------------------------------------------------- strings and queries
\* A string is a sequence of characters; a character is a record so that a
\* date (standing for a naive ISO-8601 timestamp of instant t), the letter
\* "Z", a UTC offset suffix ("+00:00"), "&", "=" and a word can be told apart.
Ch(c, t) == [c |-> c, t |-> t]
Date(t)  == Ch("date", t)
ZCh      == Ch("Z", 0)
Offset   == Ch("offset", 0)
Junk     == Ch("junk", 0)
Amp      == Ch("&", 0)
Eq       == Ch("=", 0)
Word(w)  == Ch(w, 0)

RECURSIVE split(_)
\* str.split("&")
split(s) ==
    IF \A i \in 1..Len(s) : s[i] # Amp THEN <<s>>
    ELSE LET i == CHOOSE k \in 1..Len(s) :
                     s[k] = Amp /\ \A j \in 1..(k-1) : s[j] # Amp
         IN  <<SubSeq(s, 1, i-1)>> \o split(SubSeq(s, i+1, Len(s)))

\* str.partition("=")
partition(s) ==
    IF \A i \in 1..Len(s) : s[i] # Eq THEN [key |-> s, value |-> <<>>]
    ELSE LET i == CHOOSE k \in 1..Len(s) :
                     s[k] = Eq /\ \A j \in 1..(k-1) : s[j] # Eq
         IN  [key |-> SubSeq(s, 1, i-1), value |-> SubSeq(s, i+1, Len(s))]

ALLOWED_QUERY_FIELDS ==
    { <<Word("email")>>, <<Word("username")>>,
      <<Word("firstName")>>, <<Word("lastName")>> }

\* validate_query looking at the first pair only
validate_first_pair(query) ==
    LET kv == partition(split(query)[1])
    IN  kv.key \in ALLOWED_QUERY_FIELDS /\ kv.value # <<>>

\* TRUE when validate_query returns, FALSE when it raises ValueError
validate_query(query) ==
    LET pairs == split(query)
    IN  \A i \in 1..Len(pairs) :
            LET kv == partition(pairs[i])
            IN  kv.key \in ALLOWED_QUERY_FIELDS /\ kv.value # <<>>

\* f"username={username}"
UsernameQuery(username) == <<Word("username"), Eq>> \o username

\* ------------------------------------------------- account expiration
RECURSIVE rstripZ(_)
\* str.rstrip("Z")
rstripZ(s) ==
    IF s # <<>> /\ s[Len(s)] = ZCh THEN rstripZ(SubSeq(s, 1, Len(s)-1)) ELSE s

\* datetime.fromisoformat: a naive datetime, an offset-aware datetime, or
\* ValueError (ok = FALSE)
fromisoformat(s) ==
    IF Len(s) = 1 /\ s[1].c = "date"
    THEN [ok |-> TRUE, aware |-> FALSE, t |-> s[1].t]
    ELSE IF Len(s) = 2 /\ s[1].c = "date" /\ s[2] = Offset
    THEN [ok |-> TRUE, aware |-> TRUE, t |-> s[1].t]
    ELSE [ok |-> FALSE, aware |-> FALSE, t |-> 0]

\* The value of attributes.get("account_expiration"): None, a str, or a list
\* of str.  A str is kept as the one-element items <<s>>.
AttrNone    == [type |-> "none", items |-> <<>>]
AttrStr(s)  == [type |-> "str",  items |-> <<s>>]
AttrList(l) == [type |-> "list", items |-> l]

\* Python truthiness of that value (`if expiration_date:`)
Truthy(v) ==
    CASE v.type = "none" -> FALSE
      [] v.type = "str"  -> v.items[1] # <<>>
      [] v.type = "list" -> v.items # <<>>

\* ExpirationCheck with the ValueError of line 1079 reported as an expiry
ExpirationCheckNoFormatError(v, utcnow) ==
    IF ~Truthy(v) THEN NoOutcome
    ELSE LET expiration_date == v.items[1]
             d == fromisoformat(rstripZ(expiration_date))
         IN  IF ~d.ok THEN Expired
             ELSE IF d.aware THEN Out("TypeError", 0, "naive-vs-aware")
             ELSE IF d.t < utcnow THEN Expired
             ELSE NoOutcome

\* Lines 1061-1083: NoOutcome when the check passes, else what it raises
ExpirationCheck(v, utcnow) ==
    IF ~Truthy(v) THEN NoOutcome
    ELSE LET expiration_date == v.items[1]
             d == fromisoformat(rstripZ(expiration_date))
         IN  IF ~d.ok THEN BadExpiration
             ELSE IF d.aware THEN Out("TypeError", 0, "naive-vs-aware")
             ELSE IF d.t < utcnow THEN Expired
             ELSE NoOutcome

\* ------------------------------------------------------------- tokens
\* A JWT: the key material of the pair that signed it ("malformed" when it
\* is not a JWT at all), its exp, its aud entries (the field is left out of
\* the record when the token has no aud claim), and resource_access: ra
\* says whether the claim is there, rm / acct are its realm-management /
\* account entries ("missing", "empty" = {} or "roles" = a non-empty
\* mapping).
RealmKey == "K1"
OtherKey == "K2"

\* The PEM text public_key builds around the key material of the realm
PEM(k) == <<"-----BEGIN PUBLIC KEY-----", k, "-----END PUBLIC KEY-----">>

Token(sig, exp, aud, ra, rm, acct) ==
    [sig |-> sig, exp |-> exp, aud |-> aud, ra |-> ra, rm |-> rm, acct |-> acct]

NoAudience == "None"

\* _decode_token with verify_signature switched off
_decode_token_unverified(token, key, audience, utcnow) ==
    IF token.sig = "malformed" THEN Out("JWTError", 0, "signature")
    ELSE IF token.exp < utcnow THEN Out("ExpiredSignatureError", 0, "")
    ELSE IF audience # NoAudience /\ "aud" \in DOMAIN token
              /\ audience \notin token.aud
         THEN Out("JWTClaimsError", 0, "audience")
    ELSE NoOutcome

\* _decode_token validating aud before exp
_decode_token_aud_first(token, key, audience, utcnow) ==
    IF PEM(token.sig) # key THEN Out("JWTError", 0, "signature")
    ELSE IF audience # NoAudience /\ "aud" \in DOMAIN token
              /\ audience \notin token.aud
         THEN Out("JWTClaimsError", 0, "audience")
    ELSE IF token.exp < utcnow THEN Out("ExpiredSignatureError", 0, "")
    ELSE NoOutcome

\* jose.jwt.decode with verify_signature, verify_exp and, when an audience
\* is given, verify_aud: NoOutcome when the claims are returned
_decode_token(token, key, audience, utcnow) ==
    IF PEM(token.sig) # key THEN Out("JWTError", 0, "signature")
    ELSE IF token.exp < utcnow THEN Out("ExpiredSignatureError", 0, "")
    ELSE IF audience # NoAudience /\ "aud" \in DOMAIN token
              /\ audience \notin token.aud
         THEN Out("JWTClaimsError", 0, "audience")
    ELSE NoOutcome

token_is_valid(token, key, audience, utcnow) ==
    _decode_token(token, key, audience, utcnow) = NoOutcome

\* admin_token.setter: the new cache and what the setter raises
admin_token_set(cache, value, key, utcnow) ==
    LET d == _decode_token(value, key, NoAudience, utcnow)
    IN  IF d # NoOutcome THEN [cache |-> cache, outcome |-> d]
        ELSE IF ~value.ra
             THEN [cache |-> cache, outcome |-> Out("AttributeError", 0, "None.get")]
        ELSE IF value.rm # "roles" \/ value.acct # "roles"
             THEN [cache |-> cache, outcome |-> Out("AssertionError", 0, "access")]
        ELSE [cache |-> value, outcome |-> NoOutcome]

\* The answer of the token endpoint to the client-credentials grant
AdminResponse(status, json, has_token, token) ==
    [status |-> status, json |-> json, has_token |-> has_token, token |-> token]

\* _get_admin_token once the response is there
_get_admin_token(cache, response, key, utcnow) ==
    IF ~response.json
    THEN [cache |-> cache, outcome |-> Out("KeycloakError", response.status, "body")]
    ELSE IF ~response.has_token
    THEN [cache |-> cache, outcome |-> Out("KeycloakError", 403, "no access_token")]
    ELSE admin_token_set(cache, response.token, key, utcnow)

RECURSIVE admin_token(_, _, _, _, _)
\* admin_token getter, run without interruption against a token endpoint
\* that answers every grant of this read with `response`
admin_token(cache, response, key, utcnow, depth) ==
    IF token_is_valid(cache, key, NoAudience, utcnow)
    THEN [cache |-> cache, outcome |-> NoOutcome]
    ELSE IF depth = 0
    THEN [cache |-> cache, outcome |-> Out("RecursionError", 0, "")]
    ELSE LET g == _get_admin_token(cache, response, key, utcnow)
         IN  IF g.outcome # NoOutcome THEN g
             ELSE admin_token(g.cache, response, key, utcnow, depth - 1)

\* ------------------------------------------------------------ state
VARIABLES
    now,            \* the current UTC instant (datetime.utcnow())
    _admin_token,   \* self._admin_token
    adminStoredAt,  \* the instant at which _admin_token was stored
    adminCall,      \* the last read of self.admin_token: cache before, grant answer, outcome
    public_key,     \* the cached_property public_key
    gwUser,         \* gateway: the user record of the realm's one user
    gwEvents,       \* gateway: the error fields of that user's LOGIN_ERROR events
    gwSessions,     \* gateway: number of active sessions of that user
    gwRealm,        \* gateway: the realm attribute max-sessions
    login,          \* the user_login calls, one per caller
    reader,         \* the reads of self.admin_token in progress, one per caller
    gwKey,          \* gateway: the key material the realm signs with
    keyFetches,     \* requests sent to the realm endpoint for the public key
    check,          \* the last call of the token verifier or of current_user
    gwAttrs,        \* gateway: the user's attributes other than account_expiration
    gwEnabled,      \* gateway: the user's enabled flag
    gwBrute,        \* gateway: the user's recorded brute-force failures
    gwPolicy,       \* gateway: the realm's session lifespans, as written
    adm,            \* the last call of an administrative operation
    unlocked        \* "cleared" once clear_login_error_events has deleted the
                    \* events, "yes" once it has returned its confirmation,
                    \* "no" before and after any later lockout event

vars == <<now, _admin_token, adminStoredAt, adminCall, public_key,
          gwUser, gwEvents, gwSessions, gwRealm, login,
          reader, gwKey, keyFetches, check,
          gwAttrs, gwEnabled, gwBrute, gwPolicy, adm, unlocked>>

verifierVars == <<gwKey, keyFetches, check>>
opVars       == <<adm, unlocked>>
adminVars    == <<_admin_token, adminStoredAt, adminCall, public_key,
                  reader, verifierVars, opVars>>
gatewayVars == <<gwUser, gwEvents, gwSessions, gwRealm, gwAttrs, gwEnabled,
                 gwBrute, gwPolicy>>

Procs == {"p1", "p2"}

\* --------------------------------------------------- gateway contents
Alice == <<Word("alice")>>

UserRecord(found, attributes, requiredActions) ==
    [found |-> found, attributes |-> attributes, requiredActions |-> requiredActions]
NoUser == UserRecord(FALSE, AttrNone, <<>>)

Dates == {Date(t) : t \in Times}

ExpirationStrings ==
    {<<>>, <<Junk>>, <<ZCh>>}
        \cup {<<d>> : d \in Dates}
        \cup {<<Date(0), ZCh>>, <<Date(MaxTime), ZCh, ZCh>>}
        \cup {<<Date(0), Offset>>, <<Date(MaxTime), Offset>>}

ExpirationValues ==
    {AttrNone, AttrList(<<>>)}
        \cup {AttrStr(s) : s \in ExpirationStrings}
        \cup {AttrList(<<s>>) : s \in {<<>>, <<Junk>>, <<Date(0)>>, <<Date(0), Offset>>}}
        \cup {AttrList(<<<<Date(0)>>, <<Date(MaxTime)>>>>),
              AttrList(<<<<Date(MaxTime), ZCh>>, <<Date(0)>>>>)}

ActionLists ==
    { <<>>, <<"UPDATE_PASSWORD">>, <<"VERIFY_EMAIL", "UPDATE_PASSWORD">>,
      <<"update_user_locale", "TERMS_AND_CONDITIONS">>,
      <<"CONFIGURE_TOTP", "VERIFY_EMAIL">>, <<"UPDATE_PROFILE">>,
      <<"TERMS_AND_CONDITIONS", "UPDATE_PASSWORD">> }

EventLists ==
    { <<>>, <<"invalid_user_credentials">>,
      <<"invalid_user_credentials", "user_temporarily_disabled">> }

\* The realm attribute max-sessions: not set, a decimal string, or a string
\* int() rejects
RealmAttr(kind, n) == [kind |-> kind, n |-> n]
RealmValues ==
    {RealmAttr("absent", 0), RealmAttr("bad", 0)}
        \cup {RealmAttr("num", n) : n \in 0..MaxCap}

\* Number of keys of the JSON error document the gateway sends with a
\* non-2xx status ({"error": ...})
ErrorBodyKeys == 1

\* What an admin endpoint answers: its own document with 200, an error
\* document with 403, or a body that is not JSON with 500
Response(status, json) == [status |-> status, json |-> json]
AdminGetResponses == {Response(200, TRUE), Response(403, TRUE), Response(500, FALSE)}

GoodAdminToken == Token(RealmKey, MaxTime, {"account"}, TRUE, "roles", "roles")
StaleAdminToken == Token(RealmKey, 0, {"account"}, TRUE, "roles", "roles")
NullToken == Token("malformed", 0, {}, FALSE, "missing", "missing")

LoginAdminResponses ==
    { AdminResponse(200, TRUE, TRUE, GoodAdminToken),
      AdminResponse(401, TRUE, FALSE, NullToken),
      AdminResponse(500, FALSE, FALSE, NullToken) }

NoAdminResponse == AdminResponse(0, FALSE, FALSE, NullToken)

NoAdminCall ==
    [before |-> GoodAdminToken, response |-> NoAdminResponse,
     outcome |-> NoOutcome, read |-> FALSE]

\* One read of self.admin_token followed statement by statement: its
\* position, the getter frames it has entered, the grants it has sent, the
\* cache and the verdict of its first validity test, the last grant answer,
\* the instant of its last validity test, and what it returned or raised
IdleRead ==
    [pc |-> "idle", depth |-> 0, grants |-> 0, before |-> NullToken,
     hit |-> FALSE, response |-> NoAdminResponse, checkedAt |-> 0,
     result |-> NullToken, outcome |-> NoOutcome]

\* The last call of public_key, token_is_valid, _decode_token or
\* current_user: its arguments, the instant, and what it gave
NoKey == <<>>
NoCheck ==
    [op |-> "none", token |-> NullToken, audience |-> NoAudience,
     required_roles |-> <<>>, at |-> 0, key |-> NoKey, fetched |-> FALSE,
     outcome |-> NoOutcome, valid |-> FALSE, roles |-> {}]

\* The last call of an administrative operation: its name and argument,
\* the reads of self.admin_token it made, the requests it sent in order
\* (endpoint, status of the answer, whether the call carried timeout=),
\* what it raised (Returned when it returned) and the value it returned
NoOp ==
    [op |-> "none", arg |-> 0, tokenReads |-> 0, sent |-> <<>>,
     outcome |-> NoOutcome, value |-> 0]

\* The realm document's accessTokenLifespan, ssoSessionMaxLifespan and
\* ssoSessionIdleTimeout before any update: decimal strings
NoPolicy ==
    [accessTokenLifespan |-> <<3>>, ssoSessionMaxLifespan |-> <<3>>,
     ssoSessionIdleTimeout |-> <<3>>]

\* The attributes the user has at the gateway besides account_expiration
UserAttrs == {<<"locale", "es">>, <<"department", "sales">>}

\* The instance right after __init__: no read in progress, the public key
\* fetched once by the first _decode_token (line 168, then 207 and 1545)
Constructed ==
    /\ reader = [p \in Procs |-> IdleRead]
    /\ gwKey = RealmKey
    /\ keyFetches = 1
    /\ check = NoCheck
    /\ adm = NoOp
    /\ unlocked = "no"

\* ------------------------------------------------- the password grant
TokenFields ==
    {"access_token", "refresh_token", "id_token", "expires_in", "refresh_expires_in"}

TokenBody ==
    [access_token |-> "at", refresh_token |-> "rt", id_token |-> "it",
     expires_in |-> "300", refresh_expires_in |-> "1800", token_type |-> "Bearer"]
PartialBody ==
    [access_token |-> "at", refresh_token |-> "rt",
     expires_in |-> "300", refresh_expires_in |-> "1800"]
ErrorBody == [error |-> "invalid_grant"]

GrantResponse(status, json, body) == [status |-> status, json |-> json, body |-> body]
NoGrant == GrantResponse(0, FALSE, ErrorBody)

GrantResponses ==
    {GrantResponse(st, TRUE, b) : st \in {200, 201}, b \in {TokenBody, PartialBody}}
        \cup {GrantResponse(st, TRUE, ErrorBody) : st \in {400, 401, 403, 500}}
        \cup {GrantResponse(st, FALSE, ErrorBody) : st \in {200, 400, 401, 502}}

\* dict.get(key)
DictGet(d, key) == IF key \in DOMAIN d THEN d[key] ELSE "None"

NoResult == [f \in TokenFields |-> "unset"]

\* TokenResult with refresh_token and id_token read from each other's key
TokenResultSwapped(token_data) ==
    [f \in TokenFields |->
        CASE f = "refresh_token" -> DictGet(token_data, "id_token")
          [] f = "id_token"      -> DictGet(token_data, "refresh_token")
          [] OTHER               -> DictGet(token_data, f)]

\* Lines 1131-1138: the dict user_login returns
TokenResult(token_data) == [f \in TokenFields |-> DictGet(token_data, f)]

\* Lines 1115-1126: the exception chosen for requiredActions[0]
MandatoryAction(reason) ==
    CASE reason = "update_user_locale" -> Out("UpdateUserLocaleException", 0, reason)
      [] reason = "CONFIGURE_TOTP"     -> Out("ConfigureTOTPException", 0, reason)
      [] reason = "VERIFY_EMAIL"       -> Out("VerifyEmailException", 0, reason)
      [] reason = "UPDATE_PASSWORD"    -> Out("UpdatePasswordException", 0, reason)
      [] reason = "UPDATE_PROFILE"     -> Out("UpdateProfileException", 0, reason)
      [] OTHER                         -> Out("MandatoryActionException", 0, reason)

\* GrantOutcome keyed off the last pending action instead of the first
GrantOutcomeLastAction(user, response) ==
    IF response.status = 401
    THEN [outcome |-> InvalidCredentials, result |-> NoResult]
    ELSE IF response.status = 400 /\ Len(user.requiredActions) > 0
    THEN [outcome |-> MandatoryAction(user.requiredActions[Len(user.requiredActions)]),
          result |-> NoResult]
    ELSE IF response.json
    THEN [outcome |-> Returned, result |-> TokenResult(response.body)]
    ELSE [outcome |-> Out("KeycloakError", response.status, "Failed to parse token response."),
          result |-> NoResult]

\* Lines 1108-1143: what user_login does with the grant response; `outcome`
\* is Returned when it returns `result`
GrantOutcome(user, response) ==
    IF response.status = 401
    THEN [outcome |-> InvalidCredentials, result |-> NoResult]
    ELSE IF response.status = 400 /\ Len(user.requiredActions) > 0
    THEN [outcome |-> MandatoryAction(user.requiredActions[1]), result |-> NoResult]
    ELSE IF response.json
    THEN [outcome |-> Returned, result |-> TokenResult(response.body)]
    ELSE [outcome |-> Out("KeycloakError", response.status, "Failed to parse token response."),
          result |-> NoResult]

\* -------------------------------------------------------- user_login
Endpoints == {"users", "events", "sessions", "realm", "token"}

\* One user_login call: its position, its locals, the requests it has sent
\* per endpoint with the status of the answer, how it ended (`stage` is
\* the step that ended it), and whether another call ran while it did
IdleCall ==
    [pc |-> "idle", username |-> <<>>, user |-> NoUser,
     locked |-> "unknown", active_sessions |-> -1, max_sessions |-> -1,
     status |-> [e \in Endpoints |-> 0],
     response |-> NoGrant, outcome |-> NoOutcome, result |-> NoResult,
     stage |-> "none", reqs |-> [e \in Endpoints |-> 0],
     overlapped |-> FALSE]

Usernames == {Alice, <<Word("ghost")>>, <<>>, <<Word("alice"), Amp, Word("x")>>}

\* The requiredActions the user has while two callers log in
RaceActionLists ==
    {<<>>, <<"UPDATE_PASSWORD">>, <<"VERIFY_EMAIL", "UPDATE_PASSWORD">>}

\* The call raises `outcome` (or returns, for Returned) in step `stage`
End(c, stage, outcome) ==
    [c EXCEPT !.pc = "done", !.stage = stage, !.outcome = outcome]

Sent(c, endpoint, response) ==
    [c EXCEPT !.reqs[endpoint] = @ + 1, !.status[endpoint] = response.status]

\* A read of self.admin_token against a token endpoint that answers `ar`
\* (no grant is sent while the cached token is valid); the reader's own
\* request goes out only when the read returns a token
AdminTokenStep(ar) ==
    LET a == admin_token(_admin_token, ar, public_key, now, MaxDepth)
    IN  /\ _admin_token' = a.cache
        /\ adminStoredAt' = IF a.cache # _admin_token THEN now ELSE adminStoredAt
        /\ adminCall' = [before |-> _admin_token,
                         response |-> IF token_is_valid(_admin_token, public_key, NoAudience, now)
                                      THEN NoAdminResponse ELSE ar,
                         outcome |-> a.outcome, read |-> TRUE]
        /\ UNCHANGED <<public_key, reader, verifierVars>>

\* The same read made by user_login or by a bare reader, which leave the
\* record of administrative operations alone
ReadAdminToken(ar) ==
    /\ AdminTokenStep(ar)
    /\ UNCHANGED opVars

AdminTokenOutcome(ar) ==
    admin_token(_admin_token, ar, public_key, now, MaxDepth).outcome

\* The users the gateway returns for GET users?<query>
GatewayUsers(query) ==
    IF partition(split(query)[1]).value = Alice THEN <<gwUser>> ELSE <<>>

\* get_user without the emptiness test of line 891
get_user_unchecked(response, users) ==
    IF ~response.json THEN Out("JSONDecodeError", 0, "")
    ELSE IF response.status # 200 THEN Out("KeyError", 0, "0")
    ELSE IF users = <<>> THEN Out("IndexError", 0, "0")
    ELSE NoOutcome

\* get_user(query=...), lines 886-896: NoOutcome when it returns a user
get_user(response, users) ==
    IF ~response.json THEN Out("JSONDecodeError", 0, "")
    ELSE IF response.status # 200 THEN Out("KeyError", 0, "0")
    ELSE IF users = <<>> THEN UserNotFound
    ELSE NoOutcome

\* user_login(username, password) is called
Call(p, username) ==
    LET running(q) == q # p /\ login[q].pc \notin {"idle", "done"}
    IN  /\ login[p].pc = "idle"
        /\ login' = [q \in Procs |->
               IF q = p
               THEN [IdleCall EXCEPT !.pc = "lookup", !.username = username,
                                     !.overlapped = \E o \in Procs : running(o)]
               ELSE IF running(q) THEN [login[q] EXCEPT !.overlapped = TRUE]
               ELSE login[q]]
        /\ UNCHANGED <<now, adminVars, gatewayVars>>

\* Line 1052: user = self.get_user(query=f"username={username}")
Lookup(p, ar, r) ==
    LET c     == login[p]
        query == UsernameQuery(c.username)
    IN  /\ c.pc = "lookup"
        /\ IF ~validate_query(query)
           THEN /\ login' = [login EXCEPT ![p] = End(c, "lookup", Out("ValueError", 0, "query"))]
                /\ UNCHANGED adminVars
           ELSE /\ ReadAdminToken(ar)
                /\ IF AdminTokenOutcome(ar) # NoOutcome
                   THEN login' = [login EXCEPT ![p] = End(c, "lookup", AdminTokenOutcome(ar))]
                   ELSE LET users == GatewayUsers(query)
                            o     == get_user(r, users)
                            c1    == Sent(c, "users", r)
                        IN  login' = [login EXCEPT ![p] =
                                IF o # NoOutcome THEN End(c1, "lookup", o)
                                ELSE [c1 EXCEPT !.pc = "lockout", !.user = users[1]]]
        /\ UNCHANGED <<now, gatewayVars>>

\* is_user_temporarily_disabled, lines 1591-1617: "yes", "no", or raises
is_user_temporarily_disabled(response, events) ==
    IF response.status # 200
    THEN [value |-> "unknown", outcome |-> Out("KeycloakError", response.status, "events")]
    ELSE IF ~response.json
    THEN [value |-> "unknown", outcome |-> Out("JSONDecodeError", 0, "")]
    ELSE IF \E i \in 1..Len(events) : events[i] = "user_temporarily_disabled"
    THEN [value |-> "yes", outcome |-> NoOutcome]
    ELSE [value |-> "no", outcome |-> NoOutcome]

\* LockoutCheck without the raise of lines 1056-1059
LockoutCheckNoStop(p, ar, r) ==
    LET c == login[p]
    IN  /\ c.pc = "lockout"
        /\ ReadAdminToken(ar)
        /\ IF AdminTokenOutcome(ar) # NoOutcome
           THEN login' = [login EXCEPT ![p] = End(c, "lockout", AdminTokenOutcome(ar))]
           ELSE LET d  == is_user_temporarily_disabled(r, gwEvents)
                    c1 == [Sent(c, "events", r) EXCEPT !.locked = d.value]
                IN  login' = [login EXCEPT ![p] =
                        IF d.outcome # NoOutcome THEN End(c1, "lockout", d.outcome)
                        ELSE [c1 EXCEPT !.pc = "expiration"]]
        /\ UNCHANGED <<now, gatewayVars>>

\* Lines 1055-1059: the lockout check
LockoutCheck(p, ar, r) ==
    LET c == login[p]
    IN  /\ c.pc = "lockout"
        /\ ReadAdminToken(ar)
        /\ IF AdminTokenOutcome(ar) # NoOutcome
           THEN login' = [login EXCEPT ![p] = End(c, "lockout", AdminTokenOutcome(ar))]
           ELSE LET d  == is_user_temporarily_disabled(r, gwEvents)
                    c1 == [Sent(c, "events", r) EXCEPT !.locked = d.value]
                IN  login' = [login EXCEPT ![p] =
                        IF d.outcome # NoOutcome THEN End(c1, "lockout", d.outcome)
                        ELSE IF d.value = "yes" THEN End(c1, "lockout", Lockout)
                        ELSE [c1 EXCEPT !.pc = "expiration"]]
        /\ UNCHANGED <<now, gatewayVars>>

\* Expiration with the check moved behind the concurrency check
ExpirationDeferred(p) ==
    LET c == login[p]
    IN  /\ c.pc = "expiration"
        /\ login' = [login EXCEPT ![p] = [c EXCEPT !.pc = "sessions"]]
        /\ UNCHANGED <<now, adminVars, gatewayVars>>

\* Lines 1061-1083: the expiration check, on the record fetched in line 1052
Expiration(p) ==
    LET c == login[p]
        o == ExpirationCheck(c.user.attributes, now)
    IN  /\ c.pc = "expiration"
        /\ login' = [login EXCEPT ![p] =
               IF o # NoOutcome THEN End(c, "expiration", o)
               ELSE [c EXCEPT !.pc = "sessions"]]
        /\ UNCHANGED <<now, adminVars, gatewayVars>>

\* get_active_sessions returning a list that leaves out the newest session
get_active_sessions_short(response, sessions) ==
    IF ~response.json
    THEN [len |-> -1, outcome |-> Out("KeycloakError", 400, "active sessions")]
    ELSE IF response.status = 200
    THEN [len |-> IF sessions > 0 THEN sessions - 1 ELSE 0, outcome |-> NoOutcome]
    ELSE [len |-> ErrorBodyKeys, outcome |-> NoOutcome]

\* get_active_sessions, lines 1154-1163: len() of what it returns, or raises
get_active_sessions(response, sessions) ==
    IF ~response.json
    THEN [len |-> -1, outcome |-> Out("KeycloakError", 400, "active sessions")]
    ELSE IF response.status = 200
    THEN [len |-> sessions, outcome |-> NoOutcome]
    ELSE [len |-> ErrorBodyKeys, outcome |-> NoOutcome]

\* Line 1086: active_sessions = self.get_active_sessions(user_id=user.id)
Sessions(p, ar, r) ==
    LET c == login[p]
    IN  /\ c.pc = "sessions"
        /\ ReadAdminToken(ar)
        /\ IF AdminTokenOutcome(ar) # NoOutcome
           THEN login' = [login EXCEPT ![p] =
                    End(c, "sessions", Out("KeycloakError", 400, "active sessions"))]
           ELSE LET a  == get_active_sessions(r, gwSessions)
                    c1 == Sent(c, "sessions", r)
                IN  login' = [login EXCEPT ![p] =
                        IF a.outcome # NoOutcome THEN End(c1, "sessions", a.outcome)
                        ELSE [c1 EXCEPT !.pc = "realm", !.active_sessions = a.len]]
        /\ UNCHANGED <<now, gatewayVars>>

\* get_max_concurrent_sessions reading a key the realm document lacks
get_max_concurrent_sessions_default(response, attr) ==
    IF ~response.json
    THEN [value |-> -1, outcome |-> Out("KeycloakError", 400, "max sessions")]
    ELSE [value |-> 0, outcome |-> NoOutcome]

\* get_max_concurrent_sessions, lines 1171-1183: the int it returns, or raises
get_max_concurrent_sessions(response, attr) ==
    IF ~response.json
    THEN [value |-> -1, outcome |-> Out("KeycloakError", 400, "max sessions")]
    ELSE IF response.status # 200 \/ attr.kind = "absent"
    THEN [value |-> 0, outcome |-> NoOutcome]
    ELSE IF attr.kind = "bad"
    THEN [value |-> -1, outcome |-> Out("KeycloakError", 400, "max sessions")]
    ELSE [value |-> attr.n, outcome |-> NoOutcome]

\* LimitReached with > for >=
LimitReachedStrict(active_sessions, max_sessions) ==
    max_sessions > 0 /\ active_sessions > max_sessions

\* Line 1088: the comparison that raises ConcurrencyLimit
LimitReached(active_sessions, max_sessions) ==
    max_sessions > 0 /\ active_sessions >= max_sessions

\* Lines 1087-1092: max_sessions = self.get_max_concurrent_sessions() and the
\* concurrency check
Realm(p, ar, r) ==
    LET c == login[p]
    IN  /\ c.pc = "realm"
        /\ ReadAdminToken(ar)
        /\ IF AdminTokenOutcome(ar) # NoOutcome
           THEN login' = [login EXCEPT ![p] =
                    End(c, "realm", Out("KeycloakError", 400, "max sessions"))]
           ELSE LET m  == get_max_concurrent_sessions(r, gwRealm)
                    c1 == Sent(c, "realm", r)
                    c2 == [c1 EXCEPT !.max_sessions = m.value]
                IN  login' = [login EXCEPT ![p] =
                        IF m.outcome # NoOutcome THEN End(c1, "realm", m.outcome)
                        ELSE IF LimitReached(c.active_sessions, m.value)
                        THEN End(c2, "realm", ConcurrencyLimit)
                        ELSE [c2 EXCEPT !.pc = "grant"]]
        /\ UNCHANGED <<now, gatewayVars>>

\* Grant sending the password grant again after an answer of 500 or more
GrantRetried(p, r) ==
    LET c  == login[p]
        g  == GrantOutcome(c.user, r)
        c0 == IF r.status >= 500 THEN Sent(c, "token", r) ELSE c
        c1 == [Sent(c0, "token", r) EXCEPT !.response = r, !.result = g.result]
    IN  /\ c.pc = "grant"
        /\ login' = [login EXCEPT ![p] = End(c1, "grant", g.outcome)]
        /\ gwSessions' = IF r.status \in {200, 201} /\ r.json /\ r.body # ErrorBody
                         THEN gwSessions + 1 ELSE gwSessions
        /\ UNCHANGED <<now, adminVars, gwUser, gwEvents, gwRealm,
                       gwAttrs, gwEnabled, gwBrute, gwPolicy>>

\* Grant looking the required actions up again when it is answered
GrantRefetched(p, r) ==
    LET c  == login[p]
        g  == GrantOutcome(gwUser, r)
        c1 == [Sent(c, "token", r) EXCEPT !.response = r, !.result = g.result]
    IN  /\ c.pc = "grant"
        /\ login' = [login EXCEPT ![p] = End(c1, "grant", g.outcome)]
        /\ gwSessions' = IF r.status \in {200, 201} /\ r.json /\ r.body # ErrorBody
                         THEN gwSessions + 1 ELSE gwSessions
        /\ UNCHANGED <<now, adminVars, gwUser, gwEvents, gwRealm,
                       gwAttrs, gwEnabled, gwBrute, gwPolicy>>

\* Lines 1094-1143: the password grant and what is made of its response.
\* The gateway opens a session when it answers 200 or 201.
Grant(p, r) ==
    LET c  == login[p]
        g  == GrantOutcome(c.user, r)
        c1 == [Sent(c, "token", r) EXCEPT !.response = r, !.result = g.result]
    IN  /\ c.pc = "grant"
        /\ login' = [login EXCEPT ![p] = End(c1, "grant", g.outcome)]
        /\ gwSessions' = IF r.status \in {200, 201} /\ r.json /\ r.body # ErrorBody
                         THEN gwSessions + 1 ELSE gwSessions
        /\ UNCHANGED <<now, adminVars, gwUser, gwEvents, gwRealm,
                       gwAttrs, gwEnabled, gwBrute, gwPolicy>>

\* ---------------------------------------------- one login, start to end
InitLogin ==
    /\ now = 1
    /\ _admin_token \in {GoodAdminToken, StaleAdminToken}
    /\ adminStoredAt = 0
    /\ adminCall = NoAdminCall
    /\ public_key = PEM(RealmKey)
    /\ Constructed
    /\ gwUser \in {UserRecord(TRUE, a, ra) : a \in ExpirationValues, ra \in ActionLists}
    /\ gwEvents \in EventLists
    /\ gwSessions \in 0..MaxSessions
    /\ gwRealm \in RealmValues
    /\ gwAttrs = UserAttrs
    /\ gwEnabled = TRUE
    /\ gwBrute = 0
    /\ gwPolicy = NoPolicy
    /\ login = [p \in Procs |-> IdleCall]

NextLogin ==
    \/ \E u \in Usernames : Call("p1", u)
    \/ \E ar \in LoginAdminResponses, r \in AdminGetResponses : Lookup("p1", ar, r)
    \/ \E ar \in LoginAdminResponses, r \in AdminGetResponses : LockoutCheck("p1", ar, r)
    \/ Expiration("p1")
    \/ \E ar \in LoginAdminResponses, r \in AdminGetResponses : Sessions("p1", ar, r)
    \/ \E ar \in LoginAdminResponses, r \in AdminGetResponses : Realm("p1", ar, r)
    \/ \E r \in GrantResponses : Grant("p1", r)

SpecLogin == InitLogin /\ [][NextLogin]_vars

\* ------------------------------------- the admin token cache on its own
TokenShapes ==
    { <<FALSE, "missing", "missing">>, <<TRUE, "roles", "roles">>,
      <<TRUE, "missing", "roles">>, <<TRUE, "roles", "empty">>,
      <<TRUE, "empty", "missing">> }

AdminTokens ==
    { Token(sig, exp, {"account"}, sh[1], sh[2], sh[3]) :
          sig \in {RealmKey, OtherKey}, exp \in Times, sh \in TokenShapes }

AdminResponses ==
    {AdminResponse(200, TRUE, TRUE, t) : t \in AdminTokens}
        \cup {AdminResponse(st, TRUE, FALSE, NullToken) : st \in {200, 401}}
        \cup {AdminResponse(st, FALSE, FALSE, NullToken) : st \in {200, 502}}

\* __init__ (line 168) has fetched a token, and with it the public key
InitAdmin ==
    /\ now = 0
    /\ public_key = PEM(RealmKey)
    /\ Constructed
    /\ _admin_token \in
           {t \in AdminTokens :
                admin_token_set(NullToken, t, PEM(RealmKey), 0).outcome = NoOutcome}
    /\ adminStoredAt = 0
    /\ adminCall = NoAdminCall
    /\ gwUser = UserRecord(TRUE, AttrNone, <<>>)
    /\ gwEvents = <<>>
    /\ gwSessions = 0
    /\ gwRealm = RealmAttr("absent", 0)
    /\ gwAttrs = UserAttrs
    /\ gwEnabled = TRUE
    /\ gwBrute = 0
    /\ gwPolicy = NoPolicy
    /\ login = [p \in Procs |-> IdleCall]

\* Some admin operation reads self.admin_token (lines 338, 1426, 1592)
AdminTokenRead(ar) ==
    /\ ReadAdminToken(ar)
    /\ UNCHANGED <<now, gatewayVars, login>>

\* Time passes
Tick ==
    /\ now < MaxTime
    /\ now' = now + 1
    /\ UNCHANGED <<adminVars, gatewayVars, login>>

NextAdmin ==
    \/ \E ar \in AdminResponses : AdminTokenRead(ar)
    \/ Tick

SpecAdmin == InitAdmin /\ [][NextAdmin]_vars

\* ------------------- the admin_token getter, statement by statement
\* GetterCheck with the validity test of line 189 left out
GetterCheckNoTest(p) ==
    LET c  == reader[p]
        c0 == IF c.pc = "check" THEN c
              ELSE [IdleRead EXCEPT !.before = _admin_token]
        c1 == [c0 EXCEPT !.depth = @ + 1, !.checkedAt = now,
                         !.hit = IF c0.depth = 0 THEN TRUE ELSE @]
    IN  /\ c.pc \in {"idle", "done", "check"}
        /\ reader' = [reader EXCEPT ![p] = [c1 EXCEPT !.pc = "return"]]
        /\ UNCHANGED <<now, _admin_token, adminStoredAt, adminCall, public_key,
                       verifierVars, gatewayVars, login, opVars>>

\* Lines 189 and 191: a caller enters a getter frame (a new read, or the
\* recursive read of line 192) and tests the cached token; when the test
\* fails the frame calls _get_admin_token, which sends the grant request
GetterCheck(p) ==
    LET c     == reader[p]
        c0    == IF c.pc = "check" THEN c
                 ELSE [IdleRead EXCEPT !.before = _admin_token]
        valid == token_is_valid(_admin_token, public_key, NoAudience, now)
        c1    == [c0 EXCEPT !.depth = @ + 1, !.checkedAt = now,
                            !.hit = IF c0.depth = 0 THEN valid ELSE @]
    IN  /\ c.pc \in {"idle", "done", "check"}
        /\ reader' = [reader EXCEPT ![p] =
               IF valid THEN [c1 EXCEPT !.pc = "return"]
               ELSE IF c1.depth > MaxDepth
               THEN [c1 EXCEPT !.pc = "done",
                               !.outcome = Out("RecursionError", 0, "")]
               ELSE [c1 EXCEPT !.pc = "inflight", !.grants = @ + 1]]
        /\ UNCHANGED <<now, _admin_token, adminStoredAt, adminCall, public_key,
                       verifierVars, gatewayVars, login, opVars>>

\* Lines 373-384 and 192: the token endpoint answers `ar`; the setter
\* verifies and stores the token at this instant, or _get_admin_token
\* raises; after a store the getter calls itself
GetAdminTokenResponse(p, ar) ==
    LET c == reader[p]
        g == _get_admin_token(_admin_token, ar, public_key, now)
    IN  /\ c.pc = "inflight"
        /\ _admin_token' = g.cache
        /\ adminStoredAt' = IF g.outcome = NoOutcome THEN now ELSE adminStoredAt
        /\ reader' = [reader EXCEPT ![p] =
               IF g.outcome = NoOutcome
               THEN [c EXCEPT !.pc = "check", !.response = ar]
               ELSE [c EXCEPT !.pc = "done", !.response = ar,
                              !.outcome = g.outcome]]
        /\ UNCHANGED <<now, adminCall, public_key, verifierVars,
                       gatewayVars, login, opVars>>

\* Line 190: the frame whose test passed returns self._admin_token, and
\* with it every frame below
GetterReturn(p) ==
    LET c == reader[p]
    IN  /\ c.pc = "return"
        /\ reader' = [reader EXCEPT ![p] =
               [c EXCEPT !.pc = "done", !.result = _admin_token,
                         !.outcome = Returned]]
        /\ UNCHANGED <<now, _admin_token, adminStoredAt, adminCall, public_key,
                       verifierVars, gatewayVars, login, opVars>>

\* One caller at a time reads the admin token
NextAdminRead ==
    \/ GetterCheck("p1")
    \/ \E ar \in AdminResponses : GetAdminTokenResponse("p1", ar)
    \/ GetterReturn("p1")
    \/ Tick

SpecAdminRead == InitAdmin /\ [][NextAdminRead]_vars

\* Several callers (threads of the worker pool) read the admin token
NextAdminRace ==
    \/ \E p \in Procs : GetterCheck(p)
    \/ \E p \in Procs, ar \in AdminResponses : GetAdminTokenResponse(p, ar)
    \/ \E p \in Procs : GetterReturn(p)
    \/ Tick

SpecAdminRace == InitAdmin /\ [][NextAdminRace]_vars

\* ------------------------------- public key, verifier and current_user
\* What the realm endpoint answers to GET realm_uri: a JSON document with
\* the field public_key, one without it, or a body that is not JSON
RealmResponse(json, has_key) == [json |-> json, has_key |-> has_key]
RealmResponses ==
    {RealmResponse(TRUE, TRUE), RealmResponse(TRUE, FALSE), RealmResponse(FALSE, FALSE)}

\* public_key as a plain property: fetched on every read
ResolveKeyUncached(cached, response, realmKey) ==
    IF ~response.json
    THEN [key |-> cached, fetched |-> TRUE, outcome |-> Out("JSONDecodeError", 0, "")]
    ELSE IF ~response.has_key
    THEN [key |-> cached, fetched |-> TRUE, outcome |-> Out("KeyError", 0, "public_key")]
    ELSE [key |-> PEM(realmKey), fetched |-> TRUE, outcome |-> NoOutcome]

\* A read of self.public_key: the cached value when there is one, else the
\* body of the property, whose value is cached only when it returns
ResolveKey(cached, response, realmKey) ==
    IF cached # NoKey
    THEN [key |-> cached, fetched |-> FALSE, outcome |-> NoOutcome]
    ELSE IF ~response.json
    THEN [key |-> cached, fetched |-> TRUE, outcome |-> Out("JSONDecodeError", 0, "")]
    ELSE IF ~response.has_key
    THEN [key |-> cached, fetched |-> TRUE, outcome |-> Out("KeyError", 0, "public_key")]
    ELSE [key |-> PEM(realmKey), fetched |-> TRUE, outcome |-> NoOutcome]

\* A bearer token: a JWT that also carries the roles OIDCUser.roles collects
Roles == {"admin", "user"}
Bearer(sig, exp, aud, roles) ==
    [sig |-> sig, exp |-> exp, aud |-> aud, ra |-> TRUE, rm |-> "missing",
     acct |-> "roles", roles |-> roles]
\* The same token without an aud claim
WithoutAud(token) == [f \in DOMAIN token \ {"aud"} |-> token[f]]
MalformedBearer == Bearer("malformed", 0, {}, {})

\* exp of the tokens presented: before, at and after the instants 0 and 1
TokenExps == {0, 1}

\* Tokens handed to the verifier: any signer, expiry and aud claim
VerifierTokens ==
    LET withAud == { Bearer(sig, exp, aud, {}) :
                        sig \in {RealmKey, OtherKey}, exp \in TokenExps,
                        aud \in {{}, {"account"}, {"other"}} }
    IN  withAud \cup {WithoutAud(t) : t \in {b \in withAud : b.aud = {}}}
                \cup {MalformedBearer}

Audiences == {NoAudience, "account"}

\* Tokens presented to current_user: any signer, expiry and roles
GuardTokens ==
    { Bearer(sig, exp, {"account"}, T) :
          sig \in {RealmKey, OtherKey}, exp \in TokenExps, T \in SUBSET Roles }
        \cup {Bearer(RealmKey, 1, {"other"}, Roles), MalformedBearer}

\* required_roles of get_current_user: None or a list of role names
RequiredRoles ==
    {AttrNone, AttrList(<<>>), AttrList(<<"admin", "user">>),
     AttrList(<<"user", "admin">>), AttrList(<<"audit", "user", "admin">>)}

\* OIDCUser.roles of the parsed claims
roles(decoded_token) == decoded_token.roles

\* Lines 284-291 raising for the last missing role instead of the first
RoleCheckLastMissing(required_roles, user_roles) ==
    LET R == required_roles.items
        missing == {i \in 1..Len(R) : R[i] \notin user_roles}
    IN  IF ~Truthy(required_roles) \/ missing = {} THEN NoOutcome
        ELSE Out("HTTPException", 403,
                 R[CHOOSE i \in missing : \A j \in missing : i >= j])

\* Lines 284-291: NoOutcome when the loop ends, else the 403 it raises
RoleCheck(required_roles, user_roles) ==
    LET R == required_roles.items
        missing == {i \in 1..Len(R) : R[i] \notin user_roles}
    IN  IF ~Truthy(required_roles) \/ missing = {} THEN NoOutcome
        ELSE Out("HTTPException", 403,
                 R[CHOOSE i \in missing : \A j \in missing : i <= j])

TokenExpired == Out("HTTPException", 401, "Access token has expired.")

\* current_user once the public key is there: what it raises, or Returned
\* with the roles of the user it returns
current_user(token, required_roles, key, utcnow) ==
    LET d == _decode_token(token, key, "account", utcnow)
        r == RoleCheck(required_roles, roles(token))
    IN  IF d.kind = "ExpiredSignatureError"
        THEN [outcome |-> TokenExpired, roles |-> {}]
        ELSE IF d # NoOutcome THEN [outcome |-> d, roles |-> {}]
        ELSE IF r # NoOutcome THEN [outcome |-> r, roles |-> {}]
        ELSE [outcome |-> Returned, roles |-> roles(token)]

Checked(op, token, audience, required_roles, k, outcome, valid, user_roles) ==
    [op |-> op, token |-> token, audience |-> audience,
     required_roles |-> required_roles.items, at |-> now, key |-> k.key,
     fetched |-> k.fetched,
     outcome |-> outcome, valid |-> valid, roles |-> user_roles]

\* Every operation below starts by reading self.public_key
KeyRead(k) ==
    /\ k.fetched => keyFetches < MaxFetches
    /\ public_key' = k.key
    /\ keyFetches' = IF k.fetched THEN keyFetches + 1 ELSE keyFetches
    /\ UNCHANGED <<now, _admin_token, adminStoredAt, adminCall, reader, gwKey,
                   gatewayVars, login, opVars>>

\* Some code reads self.public_key
PublicKeyRead(response) ==
    LET k == ResolveKey(public_key, response, gwKey)
    IN  /\ KeyRead(k)
        /\ check' = Checked("public_key", MalformedBearer, NoAudience, AttrNone, k,
                            IF k.outcome = NoOutcome THEN Returned ELSE k.outcome,
                            FALSE, {})

\* _decode_token(token, audience=audience)
DecodeToken(token, audience, response) ==
    LET k == ResolveKey(public_key, response, gwKey)
        d == _decode_token(token, k.key, audience, now)
    IN  /\ KeyRead(k)
        /\ check' = IF k.outcome # NoOutcome
                     THEN Checked("_decode_token", token, audience, AttrNone, k,
                                  k.outcome, FALSE, {})
                     ELSE Checked("_decode_token", token, audience, AttrNone, k,
                                  IF d = NoOutcome THEN Returned ELSE d,
                                  d = NoOutcome, {})

\* token_is_valid(token, audience): Returned with the boolean, unless
\* reading the public key raised
TokenIsValid(token, audience, response) ==
    LET k == ResolveKey(public_key, response, gwKey)
    IN  /\ KeyRead(k)
        /\ check' = IF k.outcome # NoOutcome
                     THEN Checked("token_is_valid", token, audience, AttrNone, k,
                                  k.outcome, FALSE, {})
                     ELSE Checked("token_is_valid", token, audience, AttrNone, k,
                                  Returned,
                                  token_is_valid(token, k.key, audience, now), {})

\* CurrentUser asking for self.admin_token before it decodes
CurrentUserViaAdmin(token, required_roles, response) ==
    LET k == ResolveKey(public_key, response, gwKey)
        u == current_user(token, required_roles, k.key, now)
    IN  /\ k.fetched => keyFetches < MaxFetches
        /\ public_key' = k.key
        /\ keyFetches' = IF k.fetched THEN keyFetches + 1 ELSE keyFetches
        /\ adminCall' = [adminCall EXCEPT !.read = TRUE]
        /\ check' = Checked("current_user", token, "account", required_roles, k,
                            u.outcome, u.outcome = Returned, u.roles)
        /\ UNCHANGED <<now, _admin_token, adminStoredAt, reader, gwKey,
                       gatewayVars, login, opVars>>

\* The dependency returned by get_current_user(required_roles) is called
\* with a bearer token
CurrentUser(token, required_roles, response) ==
    LET k == ResolveKey(public_key, response, gwKey)
        u == current_user(token, required_roles, k.key, now)
    IN  /\ KeyRead(k)
        /\ check' = IF k.outcome # NoOutcome
                     THEN Checked("current_user", token, "account", required_roles, k,
                                  k.outcome, FALSE, {})
                     ELSE Checked("current_user", token, "account", required_roles, k,
                                  u.outcome, u.outcome = Returned, u.roles)

\* The realm replaces its signing key
Rotate ==
    /\ gwKey' = IF gwKey = RealmKey THEN OtherKey ELSE RealmKey
    /\ UNCHANGED <<now, _admin_token, adminStoredAt, adminCall, public_key,
                   reader, keyFetches, check, gatewayVars, login, opVars>>

\* __init__ at line 168, about to decode its first token: nothing cached
InitVerifier ==
    /\ now = 0
    /\ public_key = NoKey
    /\ gwKey = RealmKey
    /\ keyFetches = 0
    /\ check = NoCheck
    /\ adm = NoOp
    /\ unlocked = "no"
    /\ _admin_token = GoodAdminToken
    /\ adminStoredAt = 0
    /\ adminCall = NoAdminCall
    /\ reader = [p \in Procs |-> IdleRead]
    /\ gwUser = UserRecord(TRUE, AttrNone, <<>>)
    /\ gwEvents = <<>>
    /\ gwSessions = 0
    /\ gwRealm = RealmAttr("absent", 0)
    /\ gwAttrs = UserAttrs
    /\ gwEnabled = TRUE
    /\ gwBrute = 0
    /\ gwPolicy = NoPolicy
    /\ login = [p \in Procs |-> IdleCall]

\* The answers the realm endpoint may give to the request of this step;
\* with the key cached no request is sent
KeyResponses ==
    IF public_key = NoKey THEN RealmResponses ELSE {RealmResponse(TRUE, TRUE)}

NextVerifier ==
    \/ \E r \in KeyResponses : PublicKeyRead(r)
    \/ \E t \in VerifierTokens, a \in Audiences, r \in KeyResponses :
           DecodeToken(t, a, r)
    \/ \E t \in VerifierTokens, a \in Audiences, r \in KeyResponses :
           TokenIsValid(t, a, r)
    \/ Rotate
    \/ Tick

SpecVerifier == InitVerifier /\ [][NextVerifier]_vars

\* The instance after __init__, which has fetched the public key
InitGuard ==
    /\ now = 0
    /\ public_key = PEM(RealmKey)
    /\ Constructed
    /\ _admin_token \in {GoodAdminToken, StaleAdminToken}
    /\ adminStoredAt = 0
    /\ adminCall = NoAdminCall
    /\ gwUser = UserRecord(TRUE, AttrNone, <<>>)
    /\ gwEvents = <<>>
    /\ gwSessions = 0
    /\ gwRealm = RealmAttr("absent", 0)
    /\ gwAttrs = UserAttrs
    /\ gwEnabled = TRUE
    /\ gwBrute = 0
    /\ gwPolicy = NoPolicy
    /\ login = [p \in Procs |-> IdleCall]

\* Requests arriving at an endpoint that depends on get_current_user, and
\* application code verifying the same tokens itself
NextGuard ==
    \/ \E t \in GuardTokens, R \in RequiredRoles, r \in KeyResponses :
           CurrentUser(t, R, r)
    \/ \E t \in GuardTokens \cup VerifierTokens, a \in Audiences, r \in KeyResponses :
           DecodeToken(t, a, r)
    \/ \E t \in GuardTokens \cup VerifierTokens, a \in Audiences, r \in KeyResponses :
           TokenIsValid(t, a, r)
    \/ Rotate
    \/ Tick

SpecGuard == InitGuard /\ [][NextGuard]_vars

\* --------------------------------------------- administrative operations
\* A request of an administrative operation and the status of its answer
Req(to, status, timeout) == [to |-> to, status |-> status, timeout |-> timeout]

Op(op, arg, tokenReads, sent, outcome, value) ==
    [op |-> op, arg |-> arg, tokenReads |-> tokenReads, sent |-> sent,
     outcome |-> outcome, value |-> value]

\* The user queries callers pass to get_user
Queries ==
    UNION {[1..n -> {Word("username"), Word("id"), Word("alice"), Eq, Amp}] :
               n \in 0..MaxQueryLen}

\* get_user(query=query), lines 886-896, as called by application code
GetUserByQuery(query, ar, r) ==
    /\ adm.op = "none"
    /\ IF ~validate_query(query)
       THEN /\ adm' = Op("get_user", query, 0, <<>>, Out("ValueError", 0, "query"), 0)
            /\ UNCHANGED <<_admin_token, adminStoredAt, adminCall, public_key,
                           reader, verifierVars>>
       ELSE /\ AdminTokenStep(ar)
            /\ adm' =
                 IF AdminTokenOutcome(ar) # NoOutcome
                 THEN Op("get_user", query, 1, <<>>, AdminTokenOutcome(ar), 0)
                 ELSE LET o == get_user(r, GatewayUsers(query))
                      IN  Op("get_user", query, 1, <<Req("users", r.status, TRUE)>>,
                             IF o = NoOutcome THEN Returned ELSE o, 0)
    /\ UNCHANGED <<now, gatewayVars, login, unlocked>>

RECURSIVE str(_)
\* str(n) of an int n >= 0: its decimal digits
str(n) == IF n < 10 THEN <<n>> ELSE str(n \div 10) \o <<n % 10>>

RECURSIVE int(_)
\* int(s) of a string of decimal digits
int(s) ==
    IF Len(s) = 1 THEN s[1]
    ELSE 10 * int(SubSeq(s, 1, Len(s) - 1)) + s[Len(s)]

\* What the realm endpoint answers a PUT and the logout endpoint a POST:
\* 204 without a body, or a refusal
UpdateResponses ==
    {Response(204, FALSE), Response(200, TRUE), Response(403, TRUE),
     Response(500, FALSE)}

\* The arguments of the policy updates; idle_timeout=None is NoIdleTimeout
PolicyValues  == 0..MaxCap
NoIdleTimeout == -1

\* The statements after the request of a policy update or of logout_user:
\* what reaches the except clause (lines 1291-1297)
update_raised(response) ==
    IF response.status = 204 THEN Returned
    ELSE Out("KeycloakError", response.status, "body")

\* except Exception as e: raise KeycloakError(status_code=400, ...)
\* (lines 1299-1303)
except_Exception(raised) ==
    IF raised = Returned THEN Returned ELSE Out("KeycloakError", 400, "str(e)")

\* A policy update or logout_user: the read of self.admin_token, the
\* request, and the record of the call
Update(op, arg, endpoint, ar, r) ==
    /\ AdminTokenStep(ar)
    /\ adm' =
         IF AdminTokenOutcome(ar) # NoOutcome
         THEN Op(op, arg, adm.tokenReads + 1, adm.sent,
                 except_Exception(AdminTokenOutcome(ar)), 0)
         ELSE Op(op, arg, adm.tokenReads + 1,
                 Append(adm.sent, Req(endpoint, r.status, TRUE)),
                 except_Exception(update_raised(r)), 0)

\* The gateway carries out an update it answers with 204
Stored(ar, r) == AdminTokenOutcome(ar) = NoOutcome /\ r.status = 204

\* set_realm_session_lifespan(session_lifespan), lines 1197-1221
SetRealmSessionLifespan(session_lifespan, ar, r) ==
    /\ adm.op = "none"
    /\ Update("set_realm_session_lifespan", session_lifespan, "realm:PUT", ar, r)
    /\ gwPolicy' = IF Stored(ar, r)
                   THEN [gwPolicy EXCEPT !.accessTokenLifespan = str(session_lifespan)]
                   ELSE gwPolicy
    /\ UNCHANGED <<now, gwUser, gwEvents, gwSessions, gwRealm, gwAttrs,
                   gwEnabled, gwBrute, login, unlocked>>

\* set_session_max_lifespan(session_max_lifespan, idle_timeout), lines 1237-1265
SetSessionMaxLifespan(session_max_lifespan, idle_timeout, ar, r) ==
    /\ adm.op = "none"
    /\ Update("set_session_max_lifespan", session_max_lifespan, "realm:PUT", ar, r)
    /\ gwPolicy' =
         IF ~Stored(ar, r) THEN gwPolicy
         ELSE [gwPolicy EXCEPT
                 !.ssoSessionMaxLifespan = str(session_max_lifespan),
                 !.ssoSessionIdleTimeout =
                     IF idle_timeout # NoIdleTimeout THEN str(idle_timeout) ELSE @]
    /\ UNCHANGED <<now, gwUser, gwEvents, gwSessions, gwRealm, gwAttrs,
                   gwEnabled, gwBrute, login, unlocked>>

\* set_max_concurrent_sessions(max_sessions), lines 1279-1303; the gateway
\* keeps the string it is sent as the realm attribute max-sessions
SetMaxConcurrentSessions(max_sessions, ar, r) ==
    /\ adm.op = "none"
    /\ Update("set_max_concurrent_sessions", max_sessions, "realm:PUT", ar, r)
    /\ gwRealm' = IF Stored(ar, r)
                  THEN RealmAttr("num", int(str(max_sessions)))
                  ELSE gwRealm
    /\ UNCHANGED <<now, gwUser, gwEvents, gwSessions, gwAttrs, gwEnabled,
                   gwBrute, gwPolicy, login, unlocked>>

\* logout_user(user_id), lines 1317-1335; the gateway ends the user's sessions
LogoutUser(ar, r) ==
    /\ adm.op = "none"
    /\ Update("logout_user", 0, "logout:POST", ar, r)
    /\ gwSessions' = IF Stored(ar, r) THEN 0 ELSE gwSessions
    /\ UNCHANGED <<now, gwUser, gwEvents, gwRealm, gwAttrs, gwEnabled,
                   gwBrute, gwPolicy, login, unlocked>>

\* get_max_concurrent_sessions() called by application code after an update
\* of the cap; the record keeps the argument of that update
GetMaxConcurrentSessions(ar, r) ==
    /\ adm.op = "set_max_concurrent_sessions"
    /\ AdminTokenStep(ar)
    /\ adm' =
         IF AdminTokenOutcome(ar) # NoOutcome
         THEN Op("get_max_concurrent_sessions", adm.arg, adm.tokenReads + 1, adm.sent,
                 Out("KeycloakError", 400, "max sessions"), 0)
         ELSE LET m == get_max_concurrent_sessions(r, gwRealm)
              IN  Op("get_max_concurrent_sessions", adm.arg, adm.tokenReads + 1,
                     Append(adm.sent, Req("realm:GET", r.status, TRUE)),
                     IF m.outcome = NoOutcome THEN Returned ELSE m.outcome,
                     m.value)
    /\ UNCHANGED <<now, gatewayVars, login, unlocked>>

\* ----------------------------------------------- clear_login_error_events
\* A gateway that never answers, and a call that never returns
NoAnswer == Response(0, FALSE)
Blocked  == Out("blocked", 0, "")
Timeout  == Out("Timeout", 0, "")

UserGetResponses == AdminGetResponses \cup {Response(404, TRUE), NoAnswer}

\* requests.delete(...) of lines 1641-1650 and 1659-1666, sent without
\* timeout=, and the test of its status: NoOutcome when the function goes on
delete_or_raise(response) ==
    IF response = NoAnswer THEN Blocked
    ELSE IF response.status # 204
    THEN Out("KeycloakError", response.status, "body")
    ELSE NoOutcome

\* get_user(user_id=...), lines 897-906: NoOutcome when it returns the user
get_user_by_id(response) ==
    IF response = NoAnswer THEN Timeout
    ELSE IF response.status = 404 THEN Out("UserNotFound", 404, "user_id")
    ELSE IF ~response.json THEN Out("JSONDecodeError", 0, "")
    ELSE IF response.status # 200 THEN Out("ValidationError", 0, "KeycloakUser")
    ELSE NoOutcome

\* update_user under result_or_error, lines 926-930 and 83-104: "refetch"
\* after 204, "parsed" for another status below 299, or what it raises
update_user(response) ==
    IF response = NoAnswer THEN [next |-> "raise", outcome |-> Timeout]
    ELSE IF response.status = 204 THEN [next |-> "refetch", outcome |-> NoOutcome]
    ELSE IF response.status \in 100..298 /\ response.json
    THEN [next |-> "parsed", outcome |-> NoOutcome]
    ELSE IF response.status \in 100..298
    THEN [next |-> "raise", outcome |-> Out("JSONDecodeError", 0, "")]
    ELSE [next |-> "raise",
          outcome |-> Out("KeycloakError", response.status, "body")]

ClearOp(tokenReads, sent, outcome) ==
    Op("clear_login_error_events", 0, tokenReads, sent, outcome, 0)

\* The call is at its k-th request
ClearAt(k) ==
    /\ adm.op = "clear_login_error_events"
    /\ adm.outcome = NoOutcome
    /\ Len(adm.sent) = k - 1

\* The return of lines 1677-1680
Confirmed == IF unlocked = "cleared" THEN "yes" ELSE "no"

\* ClearEvents without the test of lines 1651-1655
ClearEventsUnchecked(ar, r) ==
    /\ adm.op = "none"
    /\ AdminTokenStep(ar)
    /\ IF AdminTokenOutcome(ar) # NoOutcome
       THEN /\ adm' = ClearOp(1, <<>>, AdminTokenOutcome(ar))
            /\ UNCHANGED <<gwEvents, unlocked>>
       ELSE /\ adm' = ClearOp(1, <<Req("events:DELETE", r.status, FALSE)>>,
                              IF r = NoAnswer THEN Blocked ELSE NoOutcome)
            /\ gwEvents' = IF r.status = 204 THEN <<>> ELSE gwEvents
            /\ unlocked' = IF r.status = 204 THEN "cleared" ELSE unlocked
    /\ UNCHANGED <<now, gwUser, gwSessions, gwRealm, gwAttrs, gwEnabled,
                   gwBrute, gwPolicy, login>>

\* Lines 1635-1655: the LOGIN_ERROR events of the user are deleted
ClearEvents(ar, r) ==
    /\ adm.op = "none"
    /\ AdminTokenStep(ar)
    /\ IF AdminTokenOutcome(ar) # NoOutcome
       THEN /\ adm' = ClearOp(1, <<>>, AdminTokenOutcome(ar))
            /\ UNCHANGED <<gwEvents, unlocked>>
       ELSE /\ adm' = ClearOp(1, <<Req("events:DELETE", r.status, FALSE)>>,
                              delete_or_raise(r))
            /\ gwEvents' = IF r.status = 204 THEN <<>> ELSE gwEvents
            /\ unlocked' = IF r.status = 204 THEN "cleared" ELSE unlocked
    /\ UNCHANGED <<now, gwUser, gwSessions, gwRealm, gwAttrs, gwEnabled,
                   gwBrute, gwPolicy, login>>

\* Lines 1657-1670: the brute-force failures of the user are cleared
ClearBruteForce(ar, r) ==
    /\ ClearAt(2)
    /\ AdminTokenStep(ar)
    /\ IF AdminTokenOutcome(ar) # NoOutcome
       THEN /\ adm' = ClearOp(2, adm.sent, AdminTokenOutcome(ar))
            /\ UNCHANGED gwBrute
       ELSE /\ adm' = ClearOp(2, Append(adm.sent, Req("brute-force:DELETE", r.status, FALSE)),
                              delete_or_raise(r))
            /\ gwBrute' = IF r.status = 204 THEN 0 ELSE gwBrute
    /\ UNCHANGED <<now, gwUser, gwEvents, gwSessions, gwRealm, gwAttrs,
                   gwEnabled, gwPolicy, login, unlocked>>

\* Lines 1672-1675 and 1677: the user is fetched; an enabled user ends the call
FetchUser(ar, r) ==
    /\ ClearAt(3)
    /\ AdminTokenStep(ar)
    /\ IF AdminTokenOutcome(ar) # NoOutcome
       THEN /\ adm' = ClearOp(3, adm.sent, AdminTokenOutcome(ar))
            /\ UNCHANGED unlocked
       ELSE LET sent == Append(adm.sent, Req("user:GET", r.status, TRUE))
                o    == get_user_by_id(r)
            IN  IF o # NoOutcome
                THEN adm' = ClearOp(3, sent, o) /\ UNCHANGED unlocked
                ELSE IF gwEnabled
                THEN adm' = ClearOp(3, sent, Returned) /\ unlocked' = Confirmed
                ELSE adm' = ClearOp(3, sent, NoOutcome) /\ UNCHANGED unlocked
    /\ UNCHANGED <<now, gatewayVars, login>>

\* Lines 1675-1676: user.enabled = True; self.update_user(user).  The
\* gateway applies the update it answers with 204 or with the user's document
EnableUser(ar, r) ==
    /\ ClearAt(4)
    /\ AdminTokenStep(ar)
    /\ IF AdminTokenOutcome(ar) # NoOutcome
       THEN /\ adm' = ClearOp(4, adm.sent, AdminTokenOutcome(ar))
            /\ UNCHANGED <<gwEnabled, unlocked>>
       ELSE LET sent == Append(adm.sent, Req("user:PUT", r.status, TRUE))
                u    == update_user(r)
            IN  /\ gwEnabled' = IF u.next \in {"refetch", "parsed"} THEN TRUE
                                 ELSE gwEnabled
                /\ IF u.next = "parsed"
                   THEN adm' = ClearOp(4, sent, Returned) /\ unlocked' = Confirmed
                   ELSE adm' = ClearOp(4, sent, u.outcome) /\ UNCHANGED unlocked
    /\ UNCHANGED <<now, gwUser, gwEvents, gwSessions, gwRealm, gwAttrs,
                   gwBrute, gwPolicy, login>>

\* Line 929: return self.get_user(user_id=user.id), then the return of
\* clear_login_error_events
RefetchUser(ar, r) ==
    /\ ClearAt(5)
    /\ AdminTokenStep(ar)
    /\ IF AdminTokenOutcome(ar) # NoOutcome
       THEN /\ adm' = ClearOp(5, adm.sent, AdminTokenOutcome(ar))
            /\ UNCHANGED unlocked
       ELSE LET sent == Append(adm.sent, Req("user:GET", r.status, TRUE))
                o    == get_user_by_id(r)
            IN  IF o # NoOutcome
                THEN adm' = ClearOp(5, sent, o) /\ UNCHANGED unlocked
                ELSE adm' = ClearOp(5, sent, Returned) /\ unlocked' = Confirmed
    /\ UNCHANGED <<now, gatewayVars, login>>

\* set_account_expiration(user_id, expiration_datetime), lines 1568-1574:
\* get_user, the assignment that replaces user.attributes, update_user (and
\* its get_user after 204).  The gateway keeps the attributes it is sent.
SetAccountExpiration(expiration_datetime, ar, r1, r2, r3) ==
    LET tok == AdminTokenOutcome(ar)
        o1  == get_user_by_id(r1)
        u   == update_user(r2)
        o3  == get_user_by_id(r3)
        s1  == <<Req("user:GET", r1.status, TRUE)>>
        s2  == Append(s1, Req("user:PUT", r2.status, TRUE))
        s3  == Append(s2, Req("user:GET", r3.status, TRUE))
        put == tok = NoOutcome /\ o1 = NoOutcome /\ u.next \in {"refetch", "parsed"}
        op(tokenReads, sent, outcome) ==
            Op("set_account_expiration", expiration_datetime, tokenReads, sent,
               outcome, 0)
    IN  /\ adm.op = "none"
        /\ AdminTokenStep(ar)
        /\ adm' = IF tok # NoOutcome THEN op(1, <<>>, tok)
                  ELSE IF o1 # NoOutcome THEN op(1, s1, o1)
                  ELSE IF u.next = "raise" THEN op(2, s2, u.outcome)
                  ELSE IF u.next = "parsed" THEN op(2, s2, Returned)
                  ELSE IF o3 # NoOutcome THEN op(3, s3, o3)
                  ELSE op(3, s3, Returned)
        /\ gwUser' = IF put THEN [gwUser EXCEPT !.attributes = AttrStr(expiration_datetime)]
                     ELSE gwUser
        /\ gwAttrs' = IF put THEN {} ELSE gwAttrs
        /\ UNCHANGED <<now, gwEvents, gwSessions, gwRealm, gwEnabled, gwBrute,
                       gwPolicy, login, unlocked>>

\* The gateway records a failed login that locks the user temporarily
LockoutEvent ==
    /\ Len(gwEvents) < MaxEvents
    /\ gwEvents' = Append(gwEvents, "user_temporarily_disabled")
    /\ gwBrute' = gwBrute + 1
    /\ unlocked' = "no"
    /\ UNCHANGED <<now, _admin_token, adminStoredAt, adminCall, public_key,
                   reader, verifierVars, adm, gwUser, gwSessions, gwRealm,
                   gwAttrs, gwEnabled, gwPolicy, login>>

HasLockoutEvent(events) ==
    \E i \in 1..Len(events) : events[i] = "user_temporarily_disabled"

\* is_user_temporarily_disabled(user_id) called by application code once
\* clear_login_error_events has ended; the bool it returns is kept as 1 or 0
IsUserTemporarilyDisabled(ar, r) ==
    /\ adm.op = "clear_login_error_events"
    /\ adm.outcome \notin {NoOutcome, Blocked}
    /\ AdminTokenStep(ar)
    /\ adm' =
         IF AdminTokenOutcome(ar) # NoOutcome
         THEN Op("is_user_temporarily_disabled", 0, adm.tokenReads + 1, adm.sent,
                 AdminTokenOutcome(ar), 0)
         ELSE LET d == is_user_temporarily_disabled(r, gwEvents)
              IN  Op("is_user_temporarily_disabled", 0, adm.tokenReads + 1,
                     Append(adm.sent, Req("events:GET", r.status, TRUE)),
                     IF d.outcome = NoOutcome THEN Returned ELSE d.outcome,
                     IF d.value = "yes" THEN 1 ELSE 0)
    /\ UNCHANGED <<now, gatewayVars, login, unlocked>>

\* An instance in use: the cached admin token may have expired by now
InitOps ==
    /\ now = 1
    /\ _admin_token \in {GoodAdminToken, StaleAdminToken}
    /\ adminStoredAt = 0
    /\ adminCall = NoAdminCall
    /\ public_key = PEM(RealmKey)
    /\ Constructed
    /\ gwUser = UserRecord(TRUE, AttrNone, <<>>)
    /\ gwEvents = <<>>
    /\ gwSessions = 0
    /\ gwRealm = RealmAttr("absent", 0)
    /\ gwAttrs = UserAttrs
    /\ gwEnabled = TRUE
    /\ gwBrute = 0
    /\ gwPolicy = NoPolicy
    /\ login = [p \in Procs |-> IdleCall]

NextQuery ==
    \E q \in Queries, ar \in LoginAdminResponses, r \in AdminGetResponses :
        GetUserByQuery(q, ar, r)

SpecQuery == InitOps /\ [][NextQuery]_vars

\* A realm whose cap is to be updated: any earlier value of max-sessions,
\* any number of sessions of the user
InitPolicy ==
    /\ now = 1
    /\ _admin_token \in {GoodAdminToken, StaleAdminToken}
    /\ adminStoredAt = 0
    /\ adminCall = NoAdminCall
    /\ public_key = PEM(RealmKey)
    /\ Constructed
    /\ gwUser = UserRecord(TRUE, AttrNone, <<>>)
    /\ gwEvents = <<>>
    /\ gwSessions \in 0..MaxSessions
    /\ gwRealm \in RealmValues
    /\ gwAttrs = UserAttrs
    /\ gwEnabled = TRUE
    /\ gwBrute = 0
    /\ gwPolicy = NoPolicy
    /\ login = [p \in Procs |-> IdleCall]

\* One update, then reads of the cap and a login
NextPolicy ==
    \/ \E n \in PolicyValues, ar \in LoginAdminResponses, r \in UpdateResponses :
           SetRealmSessionLifespan(n, ar, r)
    \/ \E n \in PolicyValues, i \in PolicyValues \cup {NoIdleTimeout},
          ar \in LoginAdminResponses, r \in UpdateResponses :
           SetSessionMaxLifespan(n, i, ar, r)
    \/ \E n \in PolicyValues, ar \in LoginAdminResponses, r \in UpdateResponses :
           SetMaxConcurrentSessions(n, ar, r)
    \/ \E ar \in LoginAdminResponses, r \in UpdateResponses : LogoutUser(ar, r)
    \/ \E ar \in LoginAdminResponses, r \in AdminGetResponses :
           GetMaxConcurrentSessions(ar, r)
    \/ adm.op # "none" /\ Call("p1", Alice)
    \/ \E ar \in LoginAdminResponses, r \in AdminGetResponses : Lookup("p1", ar, r)
    \/ \E ar \in LoginAdminResponses, r \in AdminGetResponses : LockoutCheck("p1", ar, r)
    \/ Expiration("p1")
    \/ \E ar \in LoginAdminResponses, r \in AdminGetResponses : Sessions("p1", ar, r)
    \/ \E ar \in LoginAdminResponses, r \in AdminGetResponses : Realm("p1", ar, r)
    \/ \E r \in GrantResponses : Grant("p1", r)

SpecPolicy == InitPolicy /\ [][NextPolicy]_vars

\* A user who may be locked out, disabled, or neither
InitUnlock ==
    /\ now = 1
    /\ _admin_token \in {GoodAdminToken, StaleAdminToken}
    /\ adminStoredAt = 0
    /\ adminCall = NoAdminCall
    /\ public_key = PEM(RealmKey)
    /\ Constructed
    /\ gwUser = UserRecord(TRUE, AttrNone, <<>>)
    /\ gwEvents \in {e \in EventLists : Len(e) <= MaxEvents}
    /\ gwSessions = 0
    /\ gwRealm = RealmAttr("absent", 0)
    /\ gwAttrs = UserAttrs
    /\ gwEnabled \in BOOLEAN
    /\ gwBrute = IF HasLockoutEvent(gwEvents) THEN 1 ELSE 0
    /\ gwPolicy = NoPolicy
    /\ login = [p \in Procs |-> IdleCall]

\* One clear_login_error_events or set_account_expiration; once it has
\* ended, a lockout test and a login; the gateway records lockout events at
\* any moment
NextUnlock ==
    \/ \E ar \in LoginAdminResponses, r \in UpdateResponses \cup {NoAnswer} : ClearEvents(ar, r)
    \/ \E ar \in LoginAdminResponses, r \in UpdateResponses \cup {NoAnswer} : ClearBruteForce(ar, r)
    \/ \E ar \in LoginAdminResponses, r \in UserGetResponses : FetchUser(ar, r)
    \/ \E ar \in LoginAdminResponses, r \in UpdateResponses \cup {NoAnswer} :
           EnableUser(ar, r)
    \/ \E ar \in LoginAdminResponses, r \in UserGetResponses : RefetchUser(ar, r)
    \/ LockoutEvent
    \/ \E ar \in LoginAdminResponses, r \in AdminGetResponses :
           IsUserTemporarilyDisabled(ar, r)
    \/ \E d \in {<<Date(0)>>, <<Date(MaxTime)>>, <<Date(0), ZCh>>},
          ar \in LoginAdminResponses, r1 \in UserGetResponses,
          r2 \in UpdateResponses \cup {NoAnswer}, r3 \in UserGetResponses :
           SetAccountExpiration(d, ar, r1, r2, r3)
    \/ adm.outcome # NoOutcome /\ Call("p1", Alice)
    \/ \E ar \in LoginAdminResponses, r \in AdminGetResponses : Lookup("p1", ar, r)
    \/ \E ar \in LoginAdminResponses, r \in AdminGetResponses : LockoutCheck("p1", ar, r)
    \/ Expiration("p1")
    \/ \E ar \in LoginAdminResponses, r \in AdminGetResponses : Sessions("p1", ar, r)
    \/ \E ar \in LoginAdminResponses, r \in AdminGetResponses : Realm("p1", ar, r)
    \/ \E r \in GrantResponses : Grant("p1", r)

SpecUnlock == InitUnlock /\ [][NextUnlock]_vars

\* The gateway changes the user's requiredActions
ChangeRequiredActions(requiredActions) ==
    /\ gwUser.requiredActions # requiredActions
    /\ gwUser' = [gwUser EXCEPT !.requiredActions = requiredActions]
    /\ UNCHANGED <<now, adminVars, gwEvents, gwSessions, gwRealm, gwAttrs,
                   gwEnabled, gwBrute, gwPolicy, login>>

\* What the token endpoint answers the two callers
RaceGrantResponses ==
    {GrantResponse(200, TRUE, TokenBody), GrantResponse(400, TRUE, ErrorBody),
     GrantResponse(401, TRUE, ErrorBody)}

\* A realm with a cap and a user within it
InitLoginRace ==
    /\ now = 1
    /\ _admin_token = GoodAdminToken
    /\ adminStoredAt = 0
    /\ adminCall = NoAdminCall
    /\ public_key = PEM(RealmKey)
    /\ Constructed
    /\ gwUser \in {UserRecord(TRUE, AttrNone, ra) : ra \in RaceActionLists}
    /\ gwEvents = <<>>
    /\ gwRealm \in {RealmAttr("num", n) : n \in 1..MaxCap}
    /\ gwSessions \in 0..gwRealm.n
    /\ gwAttrs = UserAttrs
    /\ gwEnabled = TRUE
    /\ gwBrute = 0
    /\ gwPolicy = NoPolicy
    /\ login = [p \in Procs |-> IdleCall]

\* Two callers log the same user in, in any interleaving
NextLoginRace ==
    \/ \E p \in Procs : Call(p, Alice)
    \/ \E p \in Procs, ar \in LoginAdminResponses, r \in AdminGetResponses :
           Lookup(p, ar, r)
    \/ \E p \in Procs, ar \in LoginAdminResponses, r \in AdminGetResponses :
           LockoutCheck(p, ar, r)
    \/ \E p \in Procs : Expiration(p)
    \/ \E p \in Procs, ar \in LoginAdminResponses, r \in AdminGetResponses :
           Sessions(p, ar, r)
    \/ \E p \in Procs, ar \in LoginAdminResponses, r \in AdminGetResponses :
           Realm(p, ar, r)
    \/ \E p \in Procs, r \in RaceGrantResponses : Grant(p, r)
    \/ \E ra \in RaceActionLists : ChangeRequiredActions(ra)

SpecLoginRace == InitLoginRace /\ [][NextLoginRace]_vars

\* ================================================================ claims

\* C1: a user_login call sends the password grant only after, in that same
\* call, the user was resolved, the events query answered without a
\* user_temporarily_disabled event, the expiration check passed and the
\* concurrency check passed; a call that ended in an earlier step has sent
\* no grant.
C1_GrantOnlyAfterPreChecks ==
    \A p \in Procs :
        LET c == login[p]
            v == c.user.attributes
        IN  /\ c.reqs["token"] > 0 =>
                  /\ c.user.found /\ c.status["users"] = 200
                  /\ c.locked = "no" /\ c.status["events"] = 200
                  /\ \A i \in 1..Len(gwEvents) : gwEvents[i] # "user_temporarily_disabled"
                  /\ \/ ~Truthy(v)
                     \/ LET d == fromisoformat(rstripZ(v.items[1]))
                        IN  d.ok /\ ~d.aware /\ d.t >= now
                  /\ c.reqs["sessions"] = 1 /\ c.reqs["realm"] = 1
                  /\ c.active_sessions >= 0 /\ c.max_sessions >= 0
                  /\ ~(c.max_sessions > 0 /\ c.active_sessions >= c.max_sessions)
            /\ (c.pc = "done" /\ c.stage # "grant") => c.reqs["token"] = 0

C1_Witness ==
    \E p \in Procs :
        /\ login[p].pc = "done" /\ login[p].reqs["token"] = 1
        /\ login[p].outcome = Returned
        /\ login[p].status["sessions"] = 200 /\ login[p].status["realm"] = 200
        /\ Truthy(login[p].user.attributes)
        /\ login[p].max_sessions > 0 /\ login[p].active_sessions > 0

\* C2: the pre-checks run in the order lockout, expiration, concurrency and
\* the first one that fails decides the outcome.  A user who is locked out
\* and past expiration gets Lockout, never an expiration outcome; a user who
\* is past expiration or has a malformed date and is at the session cap gets
\* the outcome of the expiration check, never ConcurrencyLimit, and no
\* session, realm or grant request is sent.
C2_FirstFailingCheckDecides ==
    \A p \in Procs :
        LET c         == login[p]
            v         == c.user.attributes
            d         == fromisoformat(rstripZ(v.items[1]))
            lockedOut == \E i \in 1..Len(gwEvents) :
                             gwEvents[i] = "user_temporarily_disabled"
            pastOrBad == Truthy(v) /\ (~d.ok \/ d.t < now)
            atCap     == gwRealm.kind = "num" /\ gwRealm.n > 0 /\ gwSessions >= gwRealm.n
        IN  (c.pc = "done" /\ c.user.found) =>
              /\ (lockedOut /\ pastOrBad) =>
                     /\ c.outcome # Expired /\ c.outcome # BadExpiration
                     /\ c.stage = "lockout"
                     /\ c.status["events"] = 200 => c.outcome = Lockout
              /\ (pastOrBad /\ atCap) =>
                     /\ c.outcome # ConcurrencyLimit
                     /\ c.reqs["sessions"] = 0 /\ c.reqs["realm"] = 0
                     /\ c.reqs["token"] = 0
                     /\ c.locked = "no" =>
                            /\ c.stage = "expiration"
                            /\ ~d.aware =>
                                  c.outcome = IF d.ok THEN Expired ELSE BadExpiration

C2_Witness ==
    \E p \in Procs :
        LET c == login[p]
            v == c.user.attributes
            d == fromisoformat(rstripZ(v.items[1]))
        IN  /\ c.pc = "done" /\ c.outcome = Lockout
            /\ Truthy(v) /\ d.ok /\ d.t < now
            /\ gwRealm.kind = "num" /\ gwRealm.n > 0 /\ gwSessions >= gwRealm.n

\* C3: for a resolved user whose lockout check passed, user_login ends with
\* Expired exactly when account_expiration (the string, or the first element
\* of the sequence) parses to an instant strictly before the current UTC
\* time, and then no grant was sent; when the attribute is absent or parses
\* to an instant at or after the current time, the expiration check passes.
C3_ExpiredIffPastExpiration ==
    \A p \in Procs :
        LET c      == login[p]
            v      == c.user.attributes
            parsed == v.type # "none" /\ v.items # <<>>
                        /\ fromisoformat(rstripZ(v.items[1])).ok
            t      == fromisoformat(rstripZ(v.items[1])).t
        IN  (c.pc = "done" /\ c.user.found /\ c.locked = "no") =>
              /\ c.outcome = Expired <=> (parsed /\ t < now)
              /\ c.outcome = Expired => c.reqs["token"] = 0
              /\ (v.type = "none" \/ (parsed /\ t >= now)) => c.stage # "expiration"

\* C4 as stated: whenever account_expiration is there but does not parse,
\* user_login ends with the invalid-format outcome and sends no session,
\* realm or grant request.
C4_Original ==
    \A p \in Procs :
        LET c == login[p]
            v == c.user.attributes
            unparsable == v.type # "none"
                            /\ (v.items = <<>> \/ ~fromisoformat(rstripZ(v.items[1])).ok)
        IN  (c.pc = "done" /\ c.user.found /\ c.locked = "no" /\ unparsable) =>
              /\ c.outcome = BadExpiration
              /\ c.reqs["sessions"] = 0 /\ c.reqs["realm"] = 0 /\ c.reqs["token"] = 0

\* C4 (amended): when account_expiration is a non-empty string, or a
\* non-empty sequence, whose string (first element) does not parse,
\* user_login ends with the invalid-format outcome, never with Expired, and
\* sends no session, realm or grant request; an empty string or an empty
\* sequence is treated as no expiration and the expiration check passes.
C4_MalformedDateIsConfigurationError ==
    \A p \in Procs :
        LET c == login[p]
            v == c.user.attributes
            nonEmpty == \/ v.type = "str" /\ v.items[1] # <<>>
                        \/ v.type = "list" /\ v.items # <<>>
        IN  (c.pc = "done" /\ c.user.found /\ c.locked = "no") =>
              /\ (nonEmpty /\ ~fromisoformat(rstripZ(v.items[1])).ok) =>
                     /\ c.outcome = BadExpiration
                     /\ c.stage = "expiration"
                     /\ c.reqs["sessions"] = 0 /\ c.reqs["realm"] = 0
                     /\ c.reqs["token"] = 0
              /\ (v.type # "none" /\ ~nonEmpty) => c.stage # "expiration"

C4_Witness ==
    \E p \in Procs :
        /\ login[p].pc = "done" /\ login[p].outcome = BadExpiration
        /\ login[p].locked = "no"
        /\ login[p].user.attributes.type = "list"

C6_NonSuccessGrantIsUpstreamError ==
    \A p \in Procs :
        LET c == login[p]
            r == c.response
        IN  (c.pc = "done" /\ c.stage = "grant" /\ r.status \notin 200..299) =>
              /\ c.outcome # Returned
              /\ (r.status # 401 /\ ~(r.status = 400 /\ Len(c.user.requiredActions) > 0)) =>
                     /\ c.outcome.kind = "KeycloakError"
                     /\ c.outcome.status = r.status
                     /\ c.outcome.detail = "body"

\* C7: when the grant answers 400 and the user record has pending required
\* actions, the outcome is the exception of the first element of
\* requiredActions (the five known names map to their own exception, any
\* other name to MandatoryActionException naming it), never
\* InvalidCredentials.
C7_FirstRequiredActionDecides ==
    \A p \in Procs :
        LET c      == login[p]
            first  == c.user.requiredActions[1]
            byName == [update_user_locale |-> "UpdateUserLocaleException",
                       CONFIGURE_TOTP     |-> "ConfigureTOTPException",
                       VERIFY_EMAIL       |-> "VerifyEmailException",
                       UPDATE_PASSWORD    |-> "UpdatePasswordException",
                       UPDATE_PROFILE     |-> "UpdateProfileException"]
        IN  (c.pc = "done" /\ c.stage = "grant" /\ c.response.status = 400
               /\ c.user.requiredActions # <<>>) =>
              /\ c.outcome.kind = IF first \in DOMAIN byName THEN byName[first]
                                  ELSE "MandatoryActionException"
              /\ c.outcome.detail = first
              /\ c.outcome # InvalidCredentials
              /\ c.result = NoResult

C7_Witness ==
    \E p \in Procs :
        /\ login[p].pc = "done" /\ login[p].response.status = 400
        /\ login[p].user.requiredActions = <<"VERIFY_EMAIL", "UPDATE_PASSWORD">>
        /\ login[p].outcome.kind = "VerifyEmailException"

\* C8: on a 2xx grant response with a JSON body user_login returns exactly
\* the fields access_token, refresh_token, id_token, expires_in and
\* refresh_expires_in, each with the value the response has under that name;
\* on a 2xx response whose body is not JSON it raises KeycloakError (a
\* parsing error), not an authentication failure, and returns nothing.
C8_TokensReturnedVerbatim ==
    \A p \in Procs :
        LET c == login[p]
            r == c.response
        IN  (c.pc = "done" /\ c.stage = "grant" /\ r.status \in 200..299) =>
              /\ r.json =>
                    /\ c.outcome = Returned
                    /\ DOMAIN c.result =
                         {"access_token", "refresh_token", "id_token",
                          "expires_in", "refresh_expires_in"}
                    /\ \A f \in DOMAIN c.result :
                           c.result[f] = IF f \in DOMAIN r.body THEN r.body[f] ELSE "None"
              /\ ~r.json =>
                    /\ c.outcome.kind = "KeycloakError"
                    /\ c.outcome.detail = "Failed to parse token response."
                    /\ c.outcome # InvalidCredentials
                    /\ c.result = NoResult

C8_Witness ==
    \E p \in Procs :
        /\ login[p].pc = "done" /\ login[p].outcome = Returned
        /\ login[p].response.status = 200 /\ login[p].response.body = TokenBody
        /\ login[p].result["id_token"] = "it" /\ login[p].result["refresh_token"] = "rt"

\* C9: when the user query answers 200 with no matching user, user_login
\* ends with UserNotFound (not InvalidCredentials, not an account-state
\* outcome) and sends no events, sessions, realm or token request.
C9_UnknownUserIsUserNotFound ==
    \A p \in Procs :
        LET c == login[p]
        IN  (c.pc \notin {"idle", "lookup"} /\ c.status["users"] = 200
               /\ GatewayUsers(UsernameQuery(c.username)) = <<>>) =>
              /\ c.pc = "done" /\ c.stage = "lookup"
              /\ c.outcome = UserNotFound
              /\ c.outcome.kind # "HTTPException"
              /\ c.reqs["events"] = 0 /\ c.reqs["sessions"] = 0
              /\ c.reqs["realm"] = 0 /\ c.reqs["token"] = 0

C9_Witness ==
    \E p \in Procs :
        /\ login[p].pc = "done" /\ login[p].outcome = UserNotFound
        /\ login[p].username = <<Word("ghost")>>
        /\ login[p].reqs["users"] = 1

\* C10: the cached admin token passed signature and expiry verification at
\* the instant it was stored and carries non-empty realm-management and
\* account entries; a granted token that passes verification but lacks
\* either entry is rejected with the configuration error (AssertionError)
\* and the cache keeps the token it had.
C10_CachedAdminTokenWasAccepted ==
    /\ PEM(_admin_token.sig) = public_key
    /\ _admin_token.exp >= adminStoredAt
    /\ _admin_token.ra /\ _admin_token.rm = "roles" /\ _admin_token.acct = "roles"
    /\ LET t == adminCall.response.token
       IN  (adminCall.read /\ adminCall.response.has_token
              /\ PEM(t.sig) = public_key /\ t.exp >= now
              /\ (~t.ra \/ t.rm # "roles" \/ t.acct # "roles")) =>
             /\ adminCall.outcome.kind = "AssertionError"
             /\ _admin_token = adminCall.before

\* C11: in sequential use every token a read of admin_token returns passed
\* the local signature-and-expiry verification in that read (at the instant
\* of the read's last validity test); a read that finds the cached token
\* valid returns that token, sends no grant and leaves the cache as it was;
\* a read that finds it invalid returns only after a grant, and returns the
\* token that grant delivered.
C11_ReadReturnsVerifiedToken ==
    \A p \in Procs :
        LET c == reader[p]
        IN  /\ (c.pc # "idle" /\ c.hit) =>
                  /\ c.grants = 0 /\ _admin_token = c.before
                  /\ c.response = NoAdminResponse
            /\ (c.pc = "done" /\ c.outcome = Returned) =>
                  /\ token_is_valid(c.result, public_key, NoAudience, c.checkedAt)
                  /\ c.result = _admin_token
                  /\ c.hit => c.result = c.before
                  /\ ~c.hit =>
                        /\ c.grants >= 1
                        /\ c.result = c.response.token
                        /\ ~token_is_valid(c.before, public_key, NoAudience, c.checkedAt)

C11_Witness ==
    \E p \in Procs :
        /\ reader[p].pc = "done" /\ reader[p].outcome = Returned
        /\ ~reader[p].hit /\ reader[p].grants = 1
        /\ reader[p].result # reader[p].before
        /\ now > reader[p].checkedAt

\* C12: one read of admin_token sends at most one client-credentials grant;
\* when the token is still invalid after that grant the read fails
\* explicitly, it neither grants again nor ends by exhausting the stack.
C12_AtMostOneGrantPerRead ==
    \A p \in Procs :
        /\ reader[p].grants <= 1
        /\ reader[p].outcome.kind # "RecursionError"

\* C13: when the grant answers with a non-2xx status or with a body that
\* has no access_token, the read ends with KeycloakError whose status is
\* the status the remote returned and whose reason is the remote body, and
\* the cache keeps the token it had.
C13_GrantFailureIsUpstreamError ==
    \A p \in Procs :
        LET c == reader[p]
            r == c.response
        IN  (c.pc \in {"check", "done"} /\ r # NoAdminResponse
               /\ (r.status \notin 200..299 \/ ~r.has_token)) =>
              /\ c.pc = "done"
              /\ c.outcome.kind = "KeycloakError"
              /\ c.outcome.status = r.status
              /\ c.outcome.detail = "body"
              /\ c.grants = 1 => _admin_token = c.before

\* C14: at any instant at most one client-credentials grant is in flight,
\* however many callers are reading the admin token.
C14_OneGrantInFlight ==
    Cardinality({p \in Procs : reader[p].pc = "inflight"}) <= 1

\* C15: once public_key has been resolved, no later step sends a request to
\* the realm endpoint or changes the cached value, whatever key the realm
\* signs with by then; the cached value is PEM-wrapped key material and a
\* read that follows returns exactly it.
C15_PublicKeyFetchedOnce ==
    /\ [][public_key # NoKey =>
             /\ public_key' = public_key
             /\ keyFetches' = keyFetches
             /\ check' # check =>
                    (~check'.fetched /\ check'.key = public_key)]_vars
    /\ [](public_key # NoKey =>
             \E k \in {RealmKey, OtherKey} : public_key = PEM(k))
    /\ []((check.op = "public_key" /\ check.outcome = Returned) =>
             (check.key = public_key /\ public_key # NoKey))

C15_Witness ==
    /\ public_key = PEM(RealmKey) /\ gwKey = OtherKey
    /\ keyFetches = 1
    /\ check.op = "public_key" /\ check.outcome = Returned
    /\ ~check.fetched /\ check.key = PEM(RealmKey)

\* C16: a token signed with a key other than the cached public key is
\* never accepted, whatever its exp, aud and roles: token_is_valid returns
\* false, _decode_token and current_user raise JWTError, and no claim
\* (role) of the token reaches the result.
C16_ForeignSignatureNeverTrusted ==
    (check.op \in {"token_is_valid", "_decode_token", "current_user"}
       /\ check.key # NoKey /\ PEM(check.token.sig) # check.key) =>
        /\ ~check.valid
        /\ check.roles = {}
        /\ check.op = "token_is_valid" => check.outcome = Returned
        /\ check.op # "token_is_valid" => check.outcome.kind = "JWTError"

C16_Witness ==
    /\ check.op = "current_user" /\ check.outcome.kind = "JWTError"
    /\ public_key = PEM(RealmKey) /\ gwKey = OtherKey
    /\ check.token.sig = gwKey /\ check.token.exp >= check.at
    /\ check.token.roles = Roles /\ check.required_roles = <<"admin", "user">>

\* C17 as stated: _decode_token fails with ExpiredSignatureError for every
\* token whose exp is before the instant of verification.
C17_Original ==
    (check.op = "_decode_token" /\ check.key # NoKey
       /\ check.token.sig # "malformed" /\ check.token.exp < check.at) =>
        check.outcome.kind = "ExpiredSignatureError"

\* C17 (amended): for every token signed with the cached public key whose
\* exp is before the instant of verification, _decode_token fails with
\* ExpiredSignatureError, whatever the audience argument and the aud claim
\* are; it never fails with JWTError or JWTClaimsError there.
C17_ExpiredIsDistinct ==
    (check.op = "_decode_token" /\ check.key # NoKey
       /\ PEM(check.token.sig) = check.key /\ check.token.exp < check.at) =>
        /\ check.outcome.kind = "ExpiredSignatureError"
        /\ ~check.valid

C17_Witness ==
    /\ check.op = "_decode_token" /\ check.outcome.kind = "ExpiredSignatureError"
    /\ check.audience = "account" /\ check.token.sig = RealmKey
    /\ "aud" \in DOMAIN check.token /\ check.token.aud = {"other"}

\* C18: for a correctly signed, unexpired token, _decode_token and
\* token_is_valid accept it when no audience argument is given, whatever
\* its aud claim; with an audience argument they accept it if and only if
\* the argument is an entry of the token's aud claim.  A token with a wrong
\* signature or a past exp is rejected in both cases.
C18_AudienceOnlyWhenSupplied ==
    LET t       == check.token
        genuine == PEM(t.sig) = check.key /\ t.exp >= check.at
    IN  (check.op \in {"_decode_token", "token_is_valid"} /\ check.key # NoKey) =>
          /\ ~genuine => ~check.valid
          /\ (genuine /\ check.audience = NoAudience) => check.valid
          /\ (genuine /\ check.audience # NoAudience) =>
                (check.valid <=> ("aud" \in DOMAIN t /\ check.audience \in t.aud))

\* C19: for a verified token with roles T and required roles R,
\* current_user returns the user (with exactly the roles T) if and only if
\* every role of R is in T; None and the empty list always pass; otherwise
\* it raises 403 naming the first role of R, in R's order, that T lacks.
C19_GuardIffRolesContained ==
    LET R == check.required_roles
        T == check.token.roles
        missing == {i \in 1..Len(R) : R[i] \notin T}
    IN  (check.op = "current_user"
           /\ _decode_token(check.token, check.key, "account", check.at) = NoOutcome) =>
          /\ check.outcome = Returned <=> missing = {}
          /\ check.outcome = Returned => check.roles = T
          /\ missing # {} =>
                \E i \in missing :
                    /\ \A j \in missing : i <= j
                    /\ check.outcome = Out("HTTPException", 403, R[i])

C19_Witness ==
    /\ check.op = "current_user"
    /\ check.required_roles = <<"audit", "user", "admin">>
    /\ check.token.roles = {"admin"}
    /\ check.outcome = Out("HTTPException", 403, "audit")

\* C20: current_user answers a bearer token that is malformed, expired or
\* not signed with the cached public key with the authentication failure
\* (HTTPException 401), never with 403, a user or another exception; an
\* expired token gets 401 also when it lacks a required role.
C20_InvalidTokenIsAuthenticationFailure ==
    (check.op = "current_user" /\ check.key # NoKey
       /\ (PEM(check.token.sig) # check.key \/ check.token.exp < check.at)) =>
        /\ check.outcome.kind = "HTTPException"
        /\ check.outcome.status = 401

\* C21: with the public key cached, a call of current_user, token_is_valid
\* or _decode_token sends no request (none to the realm endpoint, no
\* client-credentials grant), reads no admin token, and leaves the cached
\* admin token and the cached public key as they were, also when the
\* cached admin token has expired.
C21_VerifierLeavesCachesAlone ==
    [][(public_key # NoKey /\ check' # check) =>
          /\ check'.op \in {"current_user", "token_is_valid", "_decode_token"}
          /\ ~check'.fetched
          /\ keyFetches' = keyFetches
          /\ public_key' = public_key
          /\ _admin_token' = _admin_token
          /\ adminStoredAt' = adminStoredAt
          /\ adminCall' = adminCall
          /\ reader' = reader]_vars

C21_Witness ==
    /\ check.op = "current_user" /\ check.outcome = Returned
    /\ _admin_token = StaleAdminToken
    /\ ~token_is_valid(_admin_token, public_key, NoAudience, now)
    /\ adminCall = NoAdminCall /\ keyFetches = 1
    /\ gwKey = OtherKey /\ public_key = PEM(RealmKey)

\* C22: get_user(query=q) raises ValueError before it reads the admin
\* token or sends any request whenever some pair of q (q split at "&") has
\* a key outside {email, username, firstName, lastName} or an empty value;
\* the empty query is such a query.  A query all of whose pairs are
\* well-formed is not rejected this way.
C22_BadQueryRejectedBeforeAnyRequest ==
    LET q     == adm.arg
        pairs == split(q)
        bad   == \E i \in 1..Len(pairs) :
                     \/ partition(pairs[i]).key \notin ALLOWED_QUERY_FIELDS
                     \/ partition(pairs[i]).value = <<>>
    IN  adm.op = "get_user" =>
          /\ bad =>
                /\ adm.outcome.kind = "ValueError"
                /\ adm.tokenReads = 0 /\ adm.sent = <<>>
                /\ adminCall = NoAdminCall
          /\ q = <<>> => bad
          /\ ~bad => adm.outcome.kind # "ValueError" /\ adm.tokenReads = 1

C22_Witness ==
    /\ adm.op = "get_user"
    /\ adm.arg = <<Word("username"), Eq, Word("alice"), Amp>>
    /\ adm.outcome.kind = "ValueError"
    /\ _admin_token = StaleAdminToken /\ adminCall = NoAdminCall

\* C23: after set_max_concurrent_sessions(n), n >= 0, was answered 204 by a
\* gateway that stores what it is sent, get_max_concurrent_sessions()
\* answered 200 returns n, and a following user_login whose reads of the
\* session list and of the realm settings are answered 200 reads the cap n
\* and ends with ConcurrencyLimit exactly when n > 0 and the user has n or
\* more sessions.
C23_SessionCapRoundTrip ==
    LET written == /\ adm.op \in {"set_max_concurrent_sessions",
                                    "get_max_concurrent_sessions"}
                   /\ adm.sent # <<>>
                   /\ adm.sent[1] = Req("realm:PUT", 204, TRUE)
        n       == adm.arg
        c       == login["p1"]
    IN  written =>
          /\ (adm.op = "get_max_concurrent_sessions" /\ Len(adm.sent) = 2
                 /\ adm.sent[2].status = 200) =>
                 adm.outcome = Returned /\ adm.value = n
          /\ (c.status["sessions"] = 200 /\ c.status["realm"] = 200) =>
                 /\ c.max_sessions = n
                 /\ (c.pc = "done" /\ c.stage = "realm"
                        /\ c.outcome = ConcurrencyLimit)
                       <=> (n > 0 /\ c.active_sessions >= n)
                 /\ c.pc = "grant" => c.active_sessions = gwSessions

C23_Witness ==
    /\ adm.op = "get_max_concurrent_sessions"
    /\ adm.sent = <<Req("realm:PUT", 204, TRUE), Req("realm:GET", 200, TRUE)>>
    /\ adm.arg = MaxCap /\ adm.value = MaxCap
    /\ login["p1"].pc = "done" /\ login["p1"].outcome = ConcurrencyLimit
    /\ login["p1"].status["sessions"] = 200 /\ login["p1"].status["realm"] = 200
    /\ login["p1"].max_sessions = MaxCap /\ gwSessions = MaxCap

\* C24: a policy update or logout_user returns its confirmation only when
\* the remote answered 204, and for any other remote status raises a
\* KeycloakError whose status_code is the status the remote returned.
C24_UpdateErrorCarriesRemoteStatus ==
    LET updates == {"set_realm_session_lifespan", "set_session_max_lifespan",
                    "set_max_concurrent_sessions", "logout_user"}
    IN  (adm.op \in updates /\ adm.sent # <<>>) =>
          LET status == adm.sent[Len(adm.sent)].status
          IN  /\ adm.outcome = Returned <=> status = 204
              /\ status # 204 =>
                    /\ adm.outcome.kind = "KeycloakError"
                    /\ adm.outcome.status = status

\* C25: every request an operation sends carries the configured timeout,
\* so no call is left waiting for a gateway that never answers.
C25_EveryRequestCarriesTimeout ==
    /\ \A i \in 1..Len(adm.sent) : adm.sent[i].timeout
    /\ adm.outcome # Blocked

\* C30: clear_login_error_events sends its requests in the order delete
\* events, clear brute-force failures, fetch the user, enable the user, and
\* sends none after the first that fails; it returns its confirmation only
\* after both deletes were answered 204 and with the user enabled; and from
\* then until the gateway records a new lockout event
\* is_user_temporarily_disabled does not return true and no step of
\* user_login ends in Lockout.
C30_ClearThenUnlocked ==
    [][LET order == <<"events:DELETE", "brute-force:DELETE", "user:GET",
                      "user:PUT", "user:GET">>
           ok    == <<{204}, {204}, {200}, {204}, {200}>>
       IN  /\ adm'.op = "clear_login_error_events" =>
                /\ Len(adm'.sent) <= 5
                /\ \A i \in 1..Len(adm'.sent) :
                       /\ adm'.sent[i].to = order[i]
                       /\ i < Len(adm'.sent) => adm'.sent[i].status \in ok[i]
                /\ adm'.outcome = Returned =>
                       /\ Len(adm'.sent) >= 3
                       /\ adm'.sent[1].status = 204 /\ adm'.sent[2].status = 204
                       /\ gwEnabled'
           /\ unlocked' = "yes" =>
                ~HasLockoutEvent(gwEvents') /\ gwBrute' = 0 /\ gwEnabled'
           /\ unlocked = "yes" =>
                /\ (adm' # adm /\ adm'.op = "is_user_temporarily_disabled"
                       /\ adm'.outcome = Returned) =>
                       adm'.value = 0
                /\ login' # login => login'["p1"].outcome # Lockout]_vars

C30_Witness ==
    /\ unlocked = "yes"
    /\ adm.op = "is_user_temporarily_disabled"
    /\ adm.outcome = Returned /\ adm.value = 0
    /\ Len(adm.sent) = 6 /\ adm.sent[4] = Req("user:PUT", 204, TRUE)
    /\ login["p1"].pc = "done" /\ login["p1"].outcome = Returned
    /\ login["p1"].locked = "no"

\* C26: a user_login call sends at most one request to each of the user
\* lookup, the login-error events, the active sessions, the realm settings
\* and the token endpoint, in that order; a step is never sent again, and
\* once a step has ended the call no later step is sent: what the caller
\* gets is the outcome of the first step that raised.
C26_EachStepAtMostOnce ==
    LET rank  == [users |-> 1, events |-> 2, sessions |-> 3, realm |-> 4,
                  token |-> 5]
        reach == [idle |-> 0, lookup |-> 0, lockout |-> 1, expiration |-> 2,
                  sessions |-> 2, realm |-> 3, grant |-> 4]
        ended == [none |-> 0, lookup |-> 1, lockout |-> 2, expiration |-> 2,
                  sessions |-> 3, realm |-> 4, grant |-> 5]
    IN  \A p \in Procs :
            LET c == login[p]
            IN  /\ \A e \in Endpoints : c.reqs[e] <= 1
                /\ c.pc # "done" =>
                       \A e \in Endpoints : c.reqs[e] = 1 <=> rank[e] <= reach[c.pc]
                /\ c.pc = "done" =>
                       /\ \A e \in Endpoints :
                              rank[e] > ended[c.stage] => c.reqs[e] = 0
                       /\ \A e \in Endpoints :
                              rank[e] < ended[c.stage] => c.reqs[e] = 1
                /\ (c.pc = "done" /\ c.stage # "grant") => c.outcome # Returned

C26_Witness ==
    \E p \in Procs :
        /\ login[p].pc = "done" /\ login[p].stage = "sessions"
        /\ login[p].outcome.kind = "KeycloakError"
        /\ login[p].reqs = [e \in Endpoints |->
                               IF e \in {"users", "events", "sessions"} THEN 1 ELSE 0]
        /\ login[p].status["sessions"] = 500

\* C27: the mandatory-action outcome of user_login comes from the user
\* record fetched by its lookup, which is the only request for the user it
\* sends: when the grant answers 400 the exception raised is that of the
\* first requiredActions entry of that record (none when that record has
\* no entry), whatever requiredActions the gateway holds by then.
C27_ActionFromEarlierRecord ==
    \A p \in Procs :
        LET c == login[p]
        IN  (c.pc = "done" /\ c.stage = "grant") =>
              /\ c.reqs["users"] = 1
              /\ (c.response.status = 400 /\ c.user.requiredActions # <<>>) =>
                     c.outcome = MandatoryAction(c.user.requiredActions[1])
              /\ (c.response.status = 400 /\ c.user.requiredActions = <<>>) =>
                     c.outcome \notin
                         {MandatoryAction(a) : a \in {"UPDATE_PASSWORD", "VERIFY_EMAIL"}}

C27_Witness ==
    \E p \in Procs :
        /\ login[p].pc = "done" /\ login[p].response.status = 400
        /\ login[p].user.requiredActions = <<"VERIFY_EMAIL", "UPDATE_PASSWORD">>
        /\ gwUser.requiredActions = <<"UPDATE_PASSWORD">>
        /\ login[p].outcome.kind = "VerifyEmailException"
        /\ login[p].reqs["users"] = 1

C29_OnlyAccountExpirationPatched ==
    LET c == login["p1"]
        d == fromisoformat(rstripZ(adm.arg))
    IN  (adm.op = "set_account_expiration" /\ adm.outcome = Returned) =>
          /\ gwUser.attributes = AttrStr(adm.arg)
          /\ gwAttrs = UserAttrs
          /\ (c.pc = "done" /\ c.user.found /\ c.locked = "no") =>
                 (c.outcome = Expired <=> (d.ok /\ d.t < now))

====
